---------------------------- MODULE Spec2Model ----------------------------
(***************************************************************************)
(* PlacePulse: the mood search engine and its session controller.          *)
(*                                                                         *)
(*   - moodMapping.js : getMoodMapping, calculateRelevanceScore            *)
(*   - filterSort.js  : filterPlaces, sortPlaces, filterAndSortPlaces      *)
(*   - placesApi.js   : searchNearbyPlaces, textSearchPlaces,              *)
(*                      searchMultipleTypes                                *)
(*   - usePlaces.js   : the usePlaces hook (searchByMood, searchByType,    *)
(*                      clearResults, filters, the re-filter effect)       *)
(*                                                                         *)
(* Strings that the code inspects character by character (mood inputs,     *)
(* table keys, keywords) are sequences of one-character strings; strings   *)
(* that are only compared for equality (place types, sort options, error   *)
(* messages) are TLA+ strings.                                             *)
(*                                                                         *)
(* Numbers: a rating is kept in tenths (46 is 4.6), a distance in whole    *)
(* metres.  A field the provider did not send (undefined) is Absent.       *)
(***************************************************************************)
EXTENDS Integers, Sequences, FiniteSets, TLC

(***************************************************************************)
(* Bounds of the model.                                                    *)
(***************************************************************************)
\* operations of the user in a run: searches started with a location
\* (searchByMood + searchByType) and filter and sort changes
MaxOps == 3
\* aggregation check: longest types list, longest keywords list
MaxTypes == 2
MaxKeywords == 1
\* aggregation check: longest answer of one sub-query
MaxResp == 2
\* result-cap check: places in the answer of one sub-query
\* places in one list handed to filterAndSortPlaces
MaxPlaces == 3
\* the longest distance handed to formatDistance, in metres
MaxMeters == 12600
ManyWidth == 4

(***************************************************************************)
(* JavaScript values.                                                      *)
(***************************************************************************)
Absent == -1                 \* undefined
Null == "null"               \* null

\* if (x): a number is truthy when it is present and not 0
Truthy(x) == x # Absent /\ x # 0

Min(a, b) == IF a <= b THEN a ELSE b
Max(a, b) == IF a >= b THEN a ELSE b

\* a slice that keeps the last n elements: slice(-n)
sliceLast(s, n) ==
    IF Len(s) <= n THEN s ELSE SubSeq(s, Len(s) - n + 1, Len(s))

\* Array.prototype.slice(0, n)
Slice(s, n) == SubSeq(s, 1, Min(Len(s), n))

\* Array.prototype.flat() of an array of arrays
RECURSIVE Flat(_)
Flat(ss) == IF ss = << >> THEN << >> ELSE Head(ss) \o Flat(Tail(ss))

Range(s) == { s[i] : i \in 1..Len(s) }

(***************************************************************************)
(* String operations on sequences of characters.                           *)
(***************************************************************************)
UpperCase == <<"A","B","C","D","E","F","G","H","I","J","K","L","M",
               "N","O","P","Q","R","S","T","U","V","W","X","Y","Z">>
LowerCase == <<"a","b","c","d","e","f","g","h","i","j","k","l","m",
               "n","o","p","q","r","s","t","u","v","w","x","y","z">>

\* a string left in the case it was typed in
keepCase(s) == s

\* String.prototype.toLowerCase
toLowerCase(s) ==
    [ i \in 1..Len(s) |->
        IF \E k \in 1..26 : UpperCase[k] = s[i]
        THEN LowerCase[CHOOSE k \in 1..26 : UpperCase[k] = s[i]]
        ELSE s[i] ]

\* String.prototype.trim (the whitespace of the inputs is the space)
RECURSIVE trimStart(_)
trimStart(s) == IF s # << >> /\ Head(s) = " " THEN trimStart(Tail(s)) ELSE s
RECURSIVE trimEnd(_)
trimEnd(s) ==
    IF s # << >> /\ s[Len(s)] = " " THEN trimEnd(SubSeq(s, 1, Len(s) - 1)) ELSE s
trim(s) == trimEnd(trimStart(s))

\* s.replace(/-/g, ' ')
replaceHyphens(s) == [ i \in 1..Len(s) |-> IF s[i] = "-" THEN " " ELSE s[i] ]

\* hay.includes(needle)
includes(hay, needle) ==
    \E i \in 1..(Len(hay) - Len(needle) + 1) :
        SubSeq(hay, i, i + Len(needle) - 1) = needle

(***************************************************************************)
(* moodMapping.js: the mood table, in table order (Object.entries order).  *)
(***************************************************************************)
moodMappings ==
   << [ key |-> <<"w","o","r","k">>,
        mapping |-> [
          types |-> <<"cafe", "library">>,
          keywords |-> <<<<"c","o","w","o","r","k","i","n","g">>,
                        <<"w","o","r","k","s","p","a","c","e">>,
                        <<"s","t","u","d","y"," ","c","a","f","e">>,
                        <<"w","i","f","i"," ","c","a","f","e">>,
                        <<"c","o","f","f","e","e"," ","s","h","o","p"," ","w","o","r","k">>>>,
          description |-> "Places to work or study",
          preferredPrice |-> {1, 2},
          prioritizeRating |-> TRUE ] ],
      [ key |-> <<"s","t","u","d","y">>,
        mapping |-> [
          types |-> <<"library", "cafe">>,
          keywords |-> <<<<"s","t","u","d","y">>,
                        <<"q","u","i","e","t">>,
                        <<"l","i","b","r","a","r","y">>,
                        <<"r","e","a","d","i","n","g"," ","r","o","o","m">>>>,
          description |-> "Quiet places to focus",
          preferredPrice |-> {0, 1},
          prioritizeRating |-> FALSE ] ],
      [ key |-> <<"m","e","e","t","i","n","g">>,
        mapping |-> [
          types |-> <<"cafe", "restaurant">>,
          keywords |-> <<<<"b","u","s","i","n","e","s","s">>,
                        <<"m","e","e","t","i","n","g">>,
                        <<"c","o","n","f","e","r","e","n","c","e"," ","c","a","f","e">>,
                        <<"p","r","o","f","e","s","s","i","o","n","a","l">>>>,
          description |-> "Places for business meetings",
          preferredPrice |-> {2, 3},
          prioritizeRating |-> TRUE ] ],
      [ key |-> <<"d","a","t","e">>,
        mapping |-> [
          types |-> <<"restaurant", "bar", "cafe">>,
          keywords |-> <<<<"r","o","m","a","n","t","i","c">>,
                        <<"d","i","n","n","e","r">>,
                        <<"l","o","u","n","g","e">>,
                        <<"c","o","c","k","t","a","i","l">>,
                        <<"c","a","n","d","l","e","l","i","t">>,
                        <<"i","n","t","i","m","a","t","e">>,
                        <<"w","i","n","e"," ","b","a","r">>,
                        <<"r","o","o","f","t","o","p">>>>,
          description |-> "Romantic spots for dates",
          preferredPrice |-> {2, 3, 4},
          prioritizeRating |-> TRUE ] ],
      [ key |-> <<"d","r","i","n","k","s">>,
        mapping |-> [
          types |-> <<"bar", "night_club", "cafe">>,
          keywords |-> <<<<"p","u","b">>,
                        <<"c","o","c","k","t","a","i","l">>,
                        <<"w","i","n","e"," ","b","a","r">>,
                        <<"b","r","e","w","e","r","y">>,
                        <<"b","e","e","r">>,
                        <<"h","a","p","p","y"," ","h","o","u","r">>,
                        <<"s","p","o","r","t","s"," ","b","a","r">>>>,
          description |-> "Places for drinks",
          preferredPrice |-> {2, 3},
          prioritizeRating |-> TRUE ] ],
      [ key |-> <<"n","i","g","h","t","l","i","f","e">>,
        mapping |-> [
          types |-> <<"night_club", "bar">>,
          keywords |-> <<<<"c","l","u","b">>,
                        <<"d","a","n","c","e">>,
                        <<"n","i","g","h","t","l","i","f","e">>,
                        <<"d","j">>,
                        <<"p","a","r","t","y">>,
                        <<"l","o","u","n","g","e">>>>,
          description |-> "Night entertainment venues",
          preferredPrice |-> {2, 3, 4},
          prioritizeRating |-> FALSE ] ],
      [ key |-> <<"q","u","i","c","k"," ","b","i","t","e">>,
        mapping |-> [
          types |-> <<"restaurant", "meal_takeaway", "bakery", "cafe">>,
          keywords |-> <<<<"f","a","s","t"," ","f","o","o","d">>,
                        <<"q","u","i","c","k">>,
                        <<"t","a","k","e","a","w","a","y">>,
                        <<"g","r","a","b"," ","a","n","d"," ","g","o">>,
                        <<"s","n","a","c","k">>,
                        <<"s","a","n","d","w","i","c","h">>,
                        <<"b","u","r","g","e","r">>,
                        <<"p","i","z","z","a">>>>,
          description |-> "Fast and convenient food",
          preferredPrice |-> {1, 2},
          prioritizeRating |-> FALSE ] ],
      [ key |-> <<"b","r","e","a","k","f","a","s","t">>,
        mapping |-> [
          types |-> <<"cafe", "bakery", "restaurant">>,
          keywords |-> <<<<"b","r","e","a","k","f","a","s","t">>,
                        <<"b","r","u","n","c","h">>,
                        <<"p","a","n","c","a","k","e","s">>,
                        <<"e","g","g","s">>,
                        <<"m","o","r","n","i","n","g">>,
                        <<"d","i","n","e","r">>>>,
          description |-> "Morning meals",
          preferredPrice |-> {1, 2},
          prioritizeRating |-> TRUE ] ],
      [ key |-> <<"b","r","u","n","c","h">>,
        mapping |-> [
          types |-> <<"restaurant", "cafe">>,
          keywords |-> <<<<"b","r","u","n","c","h">>,
                        <<"b","r","e","a","k","f","a","s","t">>,
                        <<"m","i","m","o","s","a">>,
                        <<"s","u","n","d","a","y"," ","b","r","u","n","c","h">>,
                        <<"e","g","g","s"," ","b","e","n","e","d","i","c","t">>>>,
          description |-> "Brunch spots",
          preferredPrice |-> {2, 3},
          prioritizeRating |-> TRUE ] ],
      [ key |-> <<"l","u","n","c","h">>,
        mapping |-> [
          types |-> <<"restaurant", "cafe", "meal_takeaway">>,
          keywords |-> <<<<"l","u","n","c","h">>,
                        <<"m","i","d","d","a","y">>,
                        <<"l","u","n","c","h"," ","s","p","e","c","i","a","l">>,
                        <<"s","a","l","a","d">>,
                        <<"s","o","u","p">>>>,
          description |-> "Lunch options",
          preferredPrice |-> {1, 2, 3},
          prioritizeRating |-> TRUE ] ],
      [ key |-> <<"d","i","n","n","e","r">>,
        mapping |-> [
          types |-> <<"restaurant">>,
          keywords |-> <<<<"d","i","n","n","e","r">>,
                        <<"f","i","n","e"," ","d","i","n","i","n","g">>,
                        <<"e","v","e","n","i","n","g">>,
                        <<"g","o","u","r","m","e","t">>,
                        <<"s","t","e","a","k","h","o","u","s","e">>,
                        <<"s","e","a","f","o","o","d">>>>,
          description |-> "Dinner restaurants",
          preferredPrice |-> {2, 3, 4},
          prioritizeRating |-> TRUE ] ],
      [ key |-> <<"c","o","f","f","e","e">>,
        mapping |-> [
          types |-> <<"cafe">>,
          keywords |-> <<<<"c","o","f","f","e","e">>,
                        <<"e","s","p","r","e","s","s","o">>,
                        <<"l","a","t","t","e">>,
                        <<"c","a","p","p","u","c","c","i","n","o">>,
                        <<"c","o","f","f","e","e"," ","s","h","o","p">>,
                        <<"s","p","e","c","i","a","l","t","y"," ","c","o","f","f","e","e">>,
                        <<"b","a","r","i","s","t","a">>>>,
          description |-> "Coffee shops",
          preferredPrice |-> {1, 2},
          prioritizeRating |-> TRUE ] ],
      [ key |-> <<"d","e","s","s","e","r","t">>,
        mapping |-> [
          types |-> <<"bakery", "cafe">>,
          keywords |-> <<<<"d","e","s","s","e","r","t">>,
                        <<"i","c","e"," ","c","r","e","a","m">>,
                        <<"c","a","k","e">>,
                        <<"p","a","s","t","r","y">>,
                        <<"s","w","e","e","t">>,
                        <<"g","e","l","a","t","o">>,
                        <<"c","u","p","c","a","k","e">>,
                        <<"c","h","o","c","o","l","a","t","e">>>>,
          description |-> "Sweet treats",
          preferredPrice |-> {1, 2},
          prioritizeRating |-> TRUE ] ],
      [ key |-> <<"b","u","d","g","e","t">>,
        mapping |-> [
          types |-> <<"restaurant", "cafe", "meal_takeaway">>,
          keywords |-> <<<<"c","h","e","a","p">>,
                        <<"a","f","f","o","r","d","a","b","l","e">>,
                        <<"b","u","d","g","e","t">>,
                        <<"v","a","l","u","e">>,
                        <<"d","e","a","l","s">>,
                        <<"h","a","p","p","y"," ","h","o","u","r">>,
                        <<"l","u","n","c","h"," ","s","p","e","c","i","a","l">>>>,
          description |-> "Budget-friendly options",
          preferredPrice |-> {0, 1},
          prioritizeRating |-> FALSE ] ],
      [ key |-> <<"f","a","n","c","y">>,
        mapping |-> [
          types |-> <<"restaurant", "bar">>,
          keywords |-> <<<<"u","p","s","c","a","l","e">>,
                        <<"f","i","n","e"," ","d","i","n","i","n","g">>,
                        <<"l","u","x","u","r","y">>,
                        <<"g","o","u","r","m","e","t">>,
                        <<"m","i","c","h","e","l","i","n">>,
                        <<"e","l","e","g","a","n","t">>,
                        <<"e","x","c","l","u","s","i","v","e">>>>,
          description |-> "Upscale experiences",
          preferredPrice |-> {3, 4},
          prioritizeRating |-> TRUE ] ],
      [ key |-> <<"c","h","i","l","l">>,
        mapping |-> [
          types |-> <<"cafe", "park", "bar">>,
          keywords |-> <<<<"r","e","l","a","x">>,
                        <<"c","h","i","l","l">>,
                        <<"c","o","z","y">>,
                        <<"l","o","u","n","g","e">>,
                        <<"q","u","i","e","t">>,
                        <<"p","e","a","c","e","f","u","l">>,
                        <<"l","a","i","d"," ","b","a","c","k">>>>,
          description |-> "Relaxed atmosphere",
          preferredPrice |-> {1, 2},
          prioritizeRating |-> TRUE ] ],
      [ key |-> <<"s","p","a">>,
        mapping |-> [
          types |-> <<"spa", "beauty_salon">>,
          keywords |-> <<<<"m","a","s","s","a","g","e">>,
                        <<"w","e","l","l","n","e","s","s">>,
                        <<"r","e","l","a","x","a","t","i","o","n">>,
                        <<"f","a","c","i","a","l">>,
                        <<"s","a","u","n","a">>,
                        <<"d","a","y"," ","s","p","a">>>>,
          description |-> "Spa and wellness",
          preferredPrice |-> {2, 3, 4},
          prioritizeRating |-> TRUE ] ],
      [ key |-> <<"f","a","m","i","l","y">>,
        mapping |-> [
          types |-> <<"restaurant", "park", "amusement_park", "zoo", "aquarium">>,
          keywords |-> <<<<"f","a","m","i","l","y"," ","f","r","i","e","n","d","l","y">>,
                        <<"k","i","d","s">>,
                        <<"c","h","i","l","d","r","e","n">>,
                        <<"f","a","m","i","l","y"," ","r","e","s","t","a","u","r","a","n","t">>,
                        <<"p","l","a","y","g","r","o","u","n","d">>,
                        <<"k","i","d"," ","m","e","n","u">>>>,
          description |-> "Family-friendly places",
          preferredPrice |-> {1, 2},
          prioritizeRating |-> TRUE ] ],
      [ key |-> <<"k","i","d","s">>,
        mapping |-> [
          types |-> <<"park", "amusement_park", "zoo", "aquarium">>,
          keywords |-> <<<<"p","l","a","y","g","r","o","u","n","d">>,
                        <<"k","i","d","s">>,
                        <<"f","a","m","i","l","y">>,
                        <<"c","h","i","l","d","r","e","n">>,
                        <<"p","l","a","y"," ","a","r","e","a">>,
                        <<"a","r","c","a","d","e">>>>,
          description |-> "Kid-friendly activities",
          preferredPrice |-> {1, 2},
          prioritizeRating |-> TRUE ] ],
      [ key |-> <<"o","u","t","d","o","o","r","s">>,
        mapping |-> [
          types |-> <<"park", "campground", "natural_feature">>,
          keywords |-> <<<<"o","u","t","d","o","o","r">>,
                        <<"n","a","t","u","r","e">>,
                        <<"h","i","k","i","n","g">>,
                        <<"t","r","a","i","l">>,
                        <<"g","a","r","d","e","n">>,
                        <<"s","c","e","n","i","c">>,
                        <<"w","a","l","k","i","n","g"," ","p","a","t","h">>>>,
          description |-> "Outdoor activities",
          preferredPrice |-> {0, 1},
          prioritizeRating |-> FALSE ] ],
      [ key |-> <<"n","a","t","u","r","e">>,
        mapping |-> [
          types |-> <<"park", "campground">>,
          keywords |-> <<<<"n","a","t","u","r","e">>,
                        <<"g","a","r","d","e","n">>,
                        <<"b","o","t","a","n","i","c","a","l">>,
                        <<"w","i","l","d","l","i","f","e">>,
                        <<"s","c","e","n","i","c">>,
                        <<"g","r","e","e","n"," ","s","p","a","c","e">>>>,
          description |-> "Natural spaces",
          preferredPrice |-> {0, 1},
          prioritizeRating |-> FALSE ] ],
      [ key |-> <<"p","i","c","n","i","c">>,
        mapping |-> [
          types |-> <<"park">>,
          keywords |-> <<<<"p","i","c","n","i","c">>,
                        <<"g","a","r","d","e","n">>,
                        <<"o","u","t","d","o","o","r">>,
                        <<"l","a","w","n">>,
                        <<"g","r","e","e","n"," ","s","p","a","c","e">>,
                        <<"p","u","b","l","i","c"," ","p","a","r","k">>>>,
          description |-> "Picnic spots",
          preferredPrice |-> {0},
          prioritizeRating |-> FALSE ] ],
      [ key |-> <<"f","i","t","n","e","s","s">>,
        mapping |-> [
          types |-> <<"gym", "park">>,
          keywords |-> <<<<"f","i","t","n","e","s","s">>,
                        <<"w","o","r","k","o","u","t">>,
                        <<"e","x","e","r","c","i","s","e">>,
                        <<"t","r","a","i","n","i","n","g">>,
                        <<"c","r","o","s","s","f","i","t">>,
                        <<"g","y","m"," ","n","e","a","r"," ","m","e">>>>,
          description |-> "Fitness facilities",
          preferredPrice |-> {1, 2, 3},
          prioritizeRating |-> TRUE ] ],
      [ key |-> <<"g","y","m">>,
        mapping |-> [
          types |-> <<"gym">>,
          keywords |-> <<<<"g","y","m">>,
                        <<"f","i","t","n","e","s","s"," ","c","e","n","t","e","r">>,
                        <<"w","o","r","k","o","u","t">>,
                        <<"h","e","a","l","t","h"," ","c","l","u","b">>,
                        <<"2","4"," ","h","o","u","r"," ","g","y","m">>>>,
          description |-> "Gyms and fitness centers",
          preferredPrice |-> {1, 2, 3},
          prioritizeRating |-> TRUE ] ],
      [ key |-> <<"y","o","g","a">>,
        mapping |-> [
          types |-> <<"gym", "spa">>,
          keywords |-> <<<<"y","o","g","a">>,
                        <<"p","i","l","a","t","e","s">>,
                        <<"m","e","d","i","t","a","t","i","o","n">>,
                        <<"y","o","g","a"," ","s","t","u","d","i","o">>,
                        <<"w","e","l","l","n","e","s","s">>>>,
          description |-> "Yoga and wellness studios",
          preferredPrice |-> {2, 3},
          prioritizeRating |-> TRUE ] ],
      [ key |-> <<"e","n","t","e","r","t","a","i","n","m","e","n","t">>,
        mapping |-> [
          types |-> <<"movie_theater", "bowling_alley", "amusement_park", "casino">>,
          keywords |-> <<<<"e","n","t","e","r","t","a","i","n","m","e","n","t">>,
                        <<"f","u","n">>,
                        <<"g","a","m","e","s">>,
                        <<"a","r","c","a","d","e">>,
                        <<"b","o","w","l","i","n","g">>,
                        <<"e","s","c","a","p","e"," ","r","o","o","m">>,
                        <<"k","a","r","a","o","k","e">>>>,
          description |-> "Entertainment venues",
          preferredPrice |-> {2, 3},
          prioritizeRating |-> TRUE ] ],
      [ key |-> <<"m","o","v","i","e","s">>,
        mapping |-> [
          types |-> <<"movie_theater">>,
          keywords |-> <<<<"c","i","n","e","m","a">>,
                        <<"m","o","v","i","e">>,
                        <<"f","i","l","m">>,
                        <<"t","h","e","a","t","e","r">>,
                        <<"i","m","a","x">>,
                        <<"m","o","v","i","e"," ","t","h","e","a","t","r","e">>>>,
          description |-> "Movie theaters",
          preferredPrice |-> {2},
          prioritizeRating |-> TRUE ] ],
      [ key |-> <<"c","u","l","t","u","r","e">>,
        mapping |-> [
          types |-> <<"museum", "art_gallery", "library">>,
          keywords |-> <<<<"m","u","s","e","u","m">>,
                        <<"a","r","t">>,
                        <<"c","u","l","t","u","r","e">>,
                        <<"h","i","s","t","o","r","y">>,
                        <<"e","x","h","i","b","i","t","i","o","n">>,
                        <<"g","a","l","l","e","r","y">>>>,
          description |-> "Cultural attractions",
          preferredPrice |-> {1, 2},
          prioritizeRating |-> TRUE ] ],
      [ key |-> <<"a","r","t">>,
        mapping |-> [
          types |-> <<"art_gallery", "museum">>,
          keywords |-> <<<<"a","r","t">>,
                        <<"g","a","l","l","e","r","y">>,
                        <<"e","x","h","i","b","i","t","i","o","n">>,
                        <<"c","o","n","t","e","m","p","o","r","a","r","y"," ","a","r","t">>,
                        <<"a","r","t"," ","m","u","s","e","u","m">>>>,
          description |-> "Art venues",
          preferredPrice |-> {1, 2},
          prioritizeRating |-> TRUE ] ],
      [ key |-> <<"m","u","s","i","c">>,
        mapping |-> [
          types |-> <<"bar", "night_club">>,
          keywords |-> <<<<"l","i","v","e"," ","m","u","s","i","c">>,
                        <<"c","o","n","c","e","r","t">>,
                        <<"j","a","z","z">>,
                        <<"m","u","s","i","c"," ","v","e","n","u","e">>,
                        <<"l","i","v","e"," ","b","a","n","d">>,
                        <<"o","p","e","n"," ","m","i","c">>>>,
          description |-> "Live music venues",
          preferredPrice |-> {2, 3},
          prioritizeRating |-> TRUE ] ],
      [ key |-> <<"s","h","o","p","p","i","n","g">>,
        mapping |-> [
          types |-> <<"shopping_mall", "department_store", "clothing_store">>,
          keywords |-> <<<<"s","h","o","p","p","i","n","g">>,
                        <<"m","a","l","l">>,
                        <<"r","e","t","a","i","l">>,
                        <<"b","o","u","t","i","q","u","e">>,
                        <<"s","h","o","p","p","i","n","g"," ","c","e","n","t","e","r">>,
                        <<"s","t","o","r","e","s">>>>,
          description |-> "Shopping destinations",
          preferredPrice |-> {1, 2, 3},
          prioritizeRating |-> FALSE ] ],
      [ key |-> <<"g","r","o","c","e","r","i","e","s">>,
        mapping |-> [
          types |-> <<"supermarket", "grocery_or_supermarket">>,
          keywords |-> <<<<"g","r","o","c","e","r","y">>,
                        <<"s","u","p","e","r","m","a","r","k","e","t">>,
                        <<"f","o","o","d"," ","s","t","o","r","e">>,
                        <<"o","r","g","a","n","i","c">>,
                        <<"m","a","r","k","e","t">>>>,
          description |-> "Grocery stores",
          preferredPrice |-> {1, 2},
          prioritizeRating |-> FALSE ] ],
      [ key |-> <<"g","a","s">>,
        mapping |-> [
          types |-> <<"gas_station">>,
          keywords |-> <<<<"g","a","s">>,
                        <<"f","u","e","l">>,
                        <<"p","e","t","r","o","l">>,
                        <<"g","a","s"," ","s","t","a","t","i","o","n">>,
                        <<"f","u","e","l"," ","s","t","a","t","i","o","n">>>>,
          description |-> "Gas stations",
          preferredPrice |-> {1},
          prioritizeRating |-> FALSE ] ],
      [ key |-> <<"a","t","m">>,
        mapping |-> [
          types |-> <<"atm", "bank">>,
          keywords |-> <<<<"a","t","m">>,
                        <<"b","a","n","k">>,
                        <<"c","a","s","h">>,
                        <<"w","i","t","h","d","r","a","w","a","l">>>>,
          description |-> "ATMs and banks",
          preferredPrice |-> {0},
          prioritizeRating |-> FALSE ] ],
      [ key |-> <<"p","h","a","r","m","a","c","y">>,
        mapping |-> [
          types |-> <<"pharmacy", "drugstore">>,
          keywords |-> <<<<"p","h","a","r","m","a","c","y">>,
                        <<"d","r","u","g","s","t","o","r","e">>,
                        <<"m","e","d","i","c","i","n","e">>,
                        <<"p","r","e","s","c","r","i","p","t","i","o","n">>>>,
          description |-> "Pharmacies",
          preferredPrice |-> {1, 2},
          prioritizeRating |-> FALSE ] ] >>

(***************************************************************************)
(* moodMapping.js: getMoodMapping.                                         *)
(***************************************************************************)
NumMoods == Len(moodMappings)

\* Own and inherited properties of the table object that a lower-case input
\* can name besides the mood keys: moodMappings['constructor'] is the Object
\* function, moodMappings['__proto__'] is Object.prototype; neither has a
\* types or a keywords property.
ObjectConstructor == [ builtin |-> "function Object" ]
ObjectPrototype == [ builtin |-> "Object.prototype" ]
strConstructor == <<"c","o","n","s","t","r","u","c","t","o","r">>
strProto == <<"_","_","p","r","o","t","o","_","_">>

\* moodMappings[name]: Absent-like result is signalled by hasProperty
hasOwnKey(name) == \E i \in 1..NumMoods : moodMappings[i].key = name
ownValue(name) ==
    moodMappings[CHOOSE i \in 1..NumMoods : moodMappings[i].key = name].mapping
hasProperty(name) == hasOwnKey(name) \/ name \in {strConstructor, strProto}
getProperty(name) ==
    IF hasOwnKey(name) THEN ownValue(name)
    ELSE IF name = strConstructor THEN ObjectConstructor
    ELSE ObjectPrototype

\* Array.prototype.find / indexOf: the first index that satisfies P, 0 if none
FirstIndex(P(_), n) ==
    IF \E i \in 1..n : P(i)
    THEN CHOOSE i \in 1..n : P(i) /\ \A j \in 1..(i - 1) : ~P(j)
    ELSE 0

fallbackMapping(normalizedMood) ==
    [ types |-> <<"restaurant", "cafe">>,
      keywords |-> <<normalizedMood>>,
      description |-> "General search",
      preferredPrice |-> {1, 2, 3},
      prioritizeRating |-> TRUE ]

getMoodMapping(mood) ==
    LET normalizedMood == replaceHyphens(trim(toLowerCase(mood)))
        normalizedKey(i) == replaceHyphens(moodMappings[i].key)
        directIndex == FirstIndex(LAMBDA i : normalizedKey(i) = normalizedMood,
                                  NumMoods)
        partialMatch ==
            FirstIndex(LAMBDA i : \/ includes(normalizedKey(i), normalizedMood)
                                  \/ includes(normalizedMood, normalizedKey(i)),
                       NumMoods)
        keywordHit(i) ==
            \E k \in 1..Len(moodMappings[i].mapping.keywords) :
                LET keyword == moodMappings[i].mapping.keywords[k]
                IN  \/ includes(keyword, normalizedMood)
                    \/ includes(normalizedMood, keyword)
        keywordMatch == FirstIndex(keywordHit, NumMoods)
    IN  IF hasProperty(normalizedMood) THEN getProperty(normalizedMood)
        ELSE IF directIndex # 0 THEN moodMappings[directIndex].mapping
        ELSE IF partialMatch # 0 THEN moodMappings[partialMatch].mapping
        ELSE IF keywordMatch # 0 THEN moodMappings[keywordMatch].mapping
        ELSE fallbackMapping(normalizedMood)

\* { value: key, ...moodMappings[key] } and, with a match type,
\* { value: key, ...mapping, matchType }
popularSuggestion(key) ==
    [ value |-> key, types |-> ownValue(key).types,
      keywords |-> ownValue(key).keywords,
      description |-> ownValue(key).description,
      preferredPrice |-> ownValue(key).preferredPrice,
      prioritizeRating |-> ownValue(key).prioritizeRating ]
suggestion(i, matchType) ==
    [ value |-> moodMappings[i].key, types |-> moodMappings[i].mapping.types,
      keywords |-> moodMappings[i].mapping.keywords,
      description |-> moodMappings[i].mapping.description,
      preferredPrice |-> moodMappings[i].mapping.preferredPrice,
      prioritizeRating |-> moodMappings[i].mapping.prioritizeRating,
      matchType |-> matchType ]

\* the comparator of getMoodSuggestions: it looks at its first argument only,
\* so it is no consistent comparator and the order Array.prototype.sort
\* leaves is the engine's: an engine hands the comparator the element it is
\* inserting first ("pivotFirst"), or an element already placed first
\* ("placedFirst")
SortEngines == {"pivotFirst", "placedFirst"}
suggestCompare(a, b) == IF a.matchType = "name" THEN -1 ELSE 1

\* the index after which insertion sort puts x into sorted, looking from j down
RECURSIVE insertAfter(_, _, _, _)
insertAfter(sorted, x, j, engine) ==
    IF j = 0 THEN 0
    ELSE IF \/ engine = "pivotFirst" /\ suggestCompare(x, sorted[j]) < 0
            \/ engine = "placedFirst" /\ suggestCompare(sorted[j], x) > 0
         THEN insertAfter(sorted, x, j - 1, engine)
         ELSE j

RECURSIVE sortSuggestionsFrom(_, _, _, _)
sortSuggestionsFrom(list, i, sorted, engine) ==
    IF i > Len(list) THEN sorted
    ELSE LET j == insertAfter(sorted, list[i], Len(sorted), engine)
         IN  sortSuggestionsFrom(list, i + 1,
                 SubSeq(sorted, 1, j) \o << list[i] >>
                     \o SubSeq(sorted, j + 1, Len(sorted)),
                 engine)

\* suggestions left in table order
sortNothing(list, engine) == list

\* suggestions.sort((a, b) => (a.matchType === 'name' ? -1 : 1))
sortSuggestions(list, engine) == sortSuggestionsFrom(list, 1, << >>, engine)

popularMoods ==
    << <<"w","o","r","k">>, <<"d","a","t","e">>,
       <<"q","u","i","c","k"," ","b","i","t","e">>,
       <<"c","o","f","f","e","e">>, <<"c","h","i","l","l">>,
       <<"f","a","m","i","l","y">> >>

MAX_SUGGESTIONS == 6

getMoodSuggestions(input, engine) ==
    LET normalizedInput == trim(toLowerCase(input))
        matchTypeOf(i) ==
            IF includes(moodMappings[i].key, normalizedInput) THEN "name"
            ELSE IF \E k \in 1..Len(moodMappings[i].mapping.keywords) :
                        includes(moodMappings[i].mapping.keywords[k],
                                 normalizedInput)
                 THEN "keyword"
                 ELSE "none"
        matched ==
            SelectSeq([ i \in 1..NumMoods |-> i ],
                      LAMBDA i : matchTypeOf(i) # "none")
        suggestions ==
            [ n \in 1..Len(matched) |->
                suggestion(matched[n], matchTypeOf(matched[n])) ]
    IN  IF normalizedInput = << >>
        THEN [ n \in 1..Len(popularMoods) |->
                 popularSuggestion(popularMoods[n]) ]
        ELSE Slice(sortSuggestions(suggestions, engine), MAX_SUGGESTIONS)

\* moodMapping.types / moodMapping.keywords are defined
isProfile(m) == "types" \in DOMAIN m

(***************************************************************************)
(* Place records.  A raw provider record has every field below except      *)
(* distance and relevanceScore; `via` stands for the payload of the         *)
(* request that returned the record (two requests returning the same       *)
(* place_id return two different objects).                                 *)
(***************************************************************************)
\* place.opening_hours: "absent" (no opening_hours), "unknown" (opening_hours
\* without open_now), "open" (open_now true), "closed" (open_now false)
OpeningHours == {"absent", "unknown", "open", "closed"}

Catalog ==
    << [ place_id |-> 1, name |-> <<"j","o","e">>, vicinity |-> <<"a","v","e">>,
         types |-> {"cafe"}, rating |-> 46, user_ratings_total |-> 600,
         price_level |-> 2, opening_hours |-> "open" ],
       [ place_id |-> 2, name |-> <<"a","t","m">>, vicinity |-> << >>,
         types |-> {"atm", "bank"}, rating |-> Absent,
         user_ratings_total |-> Absent,
         price_level |-> Absent, opening_hours |-> "absent" ],
       [ place_id |-> 3, name |-> <<"b","a","r">>, vicinity |-> <<"j","o">>,
         types |-> {"restaurant", "cafe"}, rating |-> 30,
         user_ratings_total |-> 40,
         price_level |-> 4, opening_hours |-> "closed" ],
       [ place_id |-> 4, name |-> <<"z","e","n">>, vicinity |-> <<"a","v","e">>,
         types |-> {"restaurant"}, rating |-> 46, user_ratings_total |-> 120,
         price_level |-> 0, opening_hours |-> "unknown" ] >>
NumPlaces == Len(Catalog)

\* calculateDistance(location, place.geometry.location), in metres
GeoDistance == <<200, 3500, 800, 0>>

\* the record the callback of request number `via` builds for catalog place i
\* (searchNearbyPlaces / textSearchPlaces: {...place, distance})
\* place number i of the provider: the catalog repeats with new place_ids
placeOf(i) ==
    [ Catalog[1 + ((i - 1) % NumPlaces)] EXCEPT !.place_id = i ]
distanceOf(i) == GeoDistance[1 + ((i - 1) % NumPlaces)]

withDistance(i, via) ==
    [ place_id |-> placeOf(i).place_id, via |-> via,
      name |-> placeOf(i).name, vicinity |-> placeOf(i).vicinity,
      types |-> placeOf(i).types, rating |-> placeOf(i).rating,
      user_ratings_total |-> placeOf(i).user_ratings_total,
      price_level |-> placeOf(i).price_level,
      opening_hours |-> placeOf(i).opening_hours,
      distance |-> distanceOf(i),
      relevanceScore |-> Absent ]

(***************************************************************************)
(* moodMapping.js: calculateRelevanceScore (base 40).  The only fractional *)
(* term is (rating / 5) * 10 = rating-in-tenths / 5, so the score is kept   *)
(* in fifths until Math.round.                                             *)
(***************************************************************************)
\* Math.min(x, 100) left out
minNoClamp(a, b) == a
\* Math.min
clampMin(a, b) == Min(a, b)

\* Math.round of n/5 for n >= 0 (no n/5 ends in .5)
RoundFifths(n) == (2 * n + 5) \div 10

calculateRelevanceScore(place, moodMapping) ==
    LET placeTypes == place.types
        matchingTypes == placeTypes \cap Range(moodMapping.types)
        typeBonus ==
            IF Cardinality(matchingTypes) > 0
            THEN (IF moodMapping.types[1] \in placeTypes THEN 20 ELSE 0)
                 + Cardinality(matchingTypes) * 10
            ELSE 0
        priceBonus ==
            IF place.price_level # Absent
            THEN (IF place.price_level \in moodMapping.preferredPrice
                  THEN 12 ELSE -5)
            ELSE 0
        \* in fifths
        ratingBonus5 ==
            IF Truthy(place.rating)
            THEN IF moodMapping.prioritizeRating
                 THEN 5 * (IF place.rating >= 45 THEN 20
                           ELSE IF place.rating >= 40 THEN 15
                           ELSE IF place.rating >= 35 THEN 10
                           ELSE 5)
                 ELSE place.rating
            ELSE 0
        popularityBonus ==
            IF Truthy(place.user_ratings_total)
            THEN IF place.user_ratings_total >= 500 THEN 12
                 ELSE IF place.user_ratings_total >= 100 THEN 8
                 ELSE IF place.user_ratings_total >= 50 THEN 5
                 ELSE 2
            ELSE 0
        openBonus == IF place.opening_hours = "open" THEN 8 ELSE 0
        distanceBonus ==
            IF Truthy(place.distance)
            THEN IF place.distance > 3000 THEN -5
                 ELSE IF place.distance < 500 THEN 5
                 ELSE 0
            ELSE 0
        score5 == 5 * (40 + typeBonus + priceBonus + popularityBonus
                          + openBonus + distanceBonus) + ratingBonus5
    IN  Max(0, clampMin(RoundFifths(score5), 100))

(***************************************************************************)
(* constants.js                                                            *)
(***************************************************************************)
MAX_RESULTS == 20
SEARCH_RADIUS_FAR == 5000

NEAREST == "nearest"
HIGHEST_RATED == "highest_rated"
BEST_MATCH == "best_match"
PRICE_LOW == "price_low"
PRICE_HIGH == "price_high"
SORT_OPTIONS == {NEAREST, HIGHEST_RATED, BEST_MATCH, PRICE_LOW, PRICE_HIGH}

\* filters.priceLevel: null, a number (a maximum) or an array (a set)
PriceNull == [ kind |-> "null", max |-> 0, set |-> {} ]
PriceMax(n) == [ kind |-> "max", max |-> n, set |-> {} ]
PriceSet(S) == [ kind |-> "set", max |-> 0, set |-> S ]

\* DEFAULT_FILTERS, with the defaults filterPlaces gives to the keys it lacks
\* (types = null, searchQuery = '')
DEFAULT_FILTERS ==
    [ minRating |-> 0, maxDistance |-> SEARCH_RADIUS_FAR, openNow |-> FALSE,
      priceLevel |-> PriceNull, types |-> {}, searchQuery |-> << >> ]

(***************************************************************************)
(* filterSort.js: filterPlaces.                                            *)
(***************************************************************************)
passesFilters(place, filters) ==
    /\ ~(Truthy(place.rating) /\ place.rating < filters.minRating)
    /\ ~(Truthy(place.distance) /\ place.distance > filters.maxDistance)
    /\ ~(filters.openNow /\ place.opening_hours # "absent"
                         /\ place.opening_hours # "open")
    /\ ~(/\ filters.priceLevel.kind # "null"
         /\ place.price_level # Absent
         /\ IF filters.priceLevel.kind = "set"
            THEN place.price_level \notin filters.priceLevel.set
            ELSE place.price_level > filters.priceLevel.max)
    /\ ~(filters.types # {} /\ filters.types \cap place.types = {})
    /\ ~(/\ filters.searchQuery # << >>
         /\ ~includes(toLowerCase(place.name), toLowerCase(filters.searchQuery))
         /\ ~includes(toLowerCase(place.vicinity),
                      toLowerCase(filters.searchQuery)))

filterPlaces(places, filters) ==
    SelectSeq(places, LAMBDA place : passesFilters(place, filters))

(***************************************************************************)
(* filterSort.js: calculatePlaceScore and sortPlaces.  The composite score *)
(* is kept in thousandths: 0.3 * relevance, 25 * rating / 5,               *)
(* 15 * min(count / 500, 1), max(0, 20 - distance / 500) and 10 become     *)
(* 300 * relevance, 500 * rating-in-tenths, min(30 * count, 15000),        *)
(* max(0, 20000 - 2 * distance) and 10000.                                 *)
(***************************************************************************)
NullMapping == [ null |-> TRUE ]

calculatePlaceScore(place, moodMapping) ==
    (IF moodMapping # NullMapping
     THEN 300 * calculateRelevanceScore(place, moodMapping) ELSE 0)
    + (IF Truthy(place.rating) THEN 500 * place.rating ELSE 0)
    + (IF Truthy(place.user_ratings_total)
       THEN Min(30 * place.user_ratings_total, 15000) ELSE 0)
    + (IF Truthy(place.distance)
       THEN Max(0, 20000 - 2 * place.distance) ELSE 0)
    + (IF place.opening_hours = "open" THEN 10000 ELSE 0)

\* x || 0
OrZero(x) == IF Truthy(x) THEN x ELSE 0
\* a missing value read as 0 whatever the default
nullishZero(x, d) == IF x = Absent THEN 0 ELSE x
\* x ?? d
Nullish(x, d) == IF x = Absent THEN d ELSE x

\* the comparator of sortPlaces for sortBy: negative when a sorts before b
compare(a, b, sortBy, moodMapping) ==
    CASE sortBy = NEAREST -> OrZero(a.distance) - OrZero(b.distance)
      [] sortBy = HIGHEST_RATED ->
            LET ratingDiff == OrZero(b.rating) - OrZero(a.rating)
            IN  IF ratingDiff # 0 THEN ratingDiff
                ELSE OrZero(b.user_ratings_total) - OrZero(a.user_ratings_total)
      [] sortBy = PRICE_LOW ->
            Nullish(a.price_level, 5) - Nullish(b.price_level, 5)
      [] sortBy = PRICE_HIGH ->
            Nullish(b.price_level, -1) - Nullish(a.price_level, -1)
      [] OTHER ->
            calculatePlaceScore(b, moodMapping)
            - calculatePlaceScore(a, moodMapping)

\* a sort that is not stable: x goes before the elements it is equal to
insertSortedUnstable(sorted, x, sortBy, moodMapping) ==
    LET notBefore(i) == compare(sorted[i], x, sortBy, moodMapping) >= 0
        pos == FirstIndex(notBefore, Len(sorted))
    IN  IF pos = 0 THEN Append(sorted, x)
        ELSE SubSeq(sorted, 1, pos - 1) \o <<x>>
             \o SubSeq(sorted, pos, Len(sorted))

\* Array.prototype.sort is stable: x, which followed every element of
\* sorted in the input, goes before the first element that must follow it
insertSorted(sorted, x, sortBy, moodMapping) ==
    LET after(i) == compare(sorted[i], x, sortBy, moodMapping) > 0
        pos == FirstIndex(after, Len(sorted))
    IN  IF pos = 0 THEN Append(sorted, x)
        ELSE SubSeq(sorted, 1, pos - 1) \o <<x>>
             \o SubSeq(sorted, pos, Len(sorted))

RECURSIVE sortFrom(_, _, _, _, _)
sortFrom(places, i, sorted, sortBy, moodMapping) ==
    IF i > Len(places) THEN sorted
    ELSE sortFrom(places, i + 1,
                  insertSorted(sorted, places[i], sortBy, moodMapping),
                  sortBy, moodMapping)

sortPlaces(places, sortBy, moodMapping) ==
    sortFrom(places, 1, << >>, sortBy, moodMapping)

\* sortPlaces throws a TypeError: the best-match comparator runs (two or
\* more places) with a mood mapping that has no types
sortThrows(places, sortBy, moodMapping) ==
    /\ Len(places) >= 2
    /\ sortBy \notin {NEAREST, HIGHEST_RATED, PRICE_LOW, PRICE_HIGH}
    /\ moodMapping # NullMapping
    /\ ~isProfile(moodMapping)

filterAndSortPlaces(places, filters, sortBy, moodMapping) ==
    sortPlaces(filterPlaces(places, filters), sortBy, moodMapping)

(***************************************************************************)
(* placesApi.js: the result of one sub-query and searchMultipleTypes.      *)
(***************************************************************************)
\* the callback status of nearbySearch / textSearch
OK == "OK"
ZERO_RESULTS == "ZERO_RESULTS"
UNKNOWN_ERROR == "UNKNOWN_ERROR"

\* an answer of the provider to one request: a status and catalog indices
Answer(status, ids) == [ status |-> status, ids |-> ids ]

\* searchNearbyPlaces / textSearchPlaces: the promise rejects
rejects(answer) == answer.status \notin {OK, ZERO_RESULTS}

\* ... or resolves with the records of the answer, distance attached
resolved(answer, via) ==
    IF answer.status = OK
    THEN [ i \in 1..Len(answer.ids) |-> withDistance(answer.ids[i], via) ]
    ELSE << >>

\* allResults: a Map keyed by place_id, filled in array order with
\* has-then-skip, read back in insertion order
\* allResults.set(place.place_id, place) without the has check: the entry
\* keeps its position in the Map and takes the last record
dedupeLastWins(flat) ==
    LET firsts == { i \in 1..Len(flat) :
                      \A j \in 1..(i - 1) : flat[j].place_id # flat[i].place_id }
        lastOf(i) == CHOOSE j \in 1..Len(flat) :
                        /\ flat[j].place_id = flat[i].place_id
                        /\ \A l \in (j + 1)..Len(flat) :
                               flat[l].place_id # flat[i].place_id
        order == SelectSeq([ i \in 1..Len(flat) |-> i ], LAMBDA i : i \in firsts)
    IN  [ n \in 1..Len(order) |-> flat[lastOf(order[n])] ]

RECURSIVE dedupeFrom(_, _, _)
dedupeFrom(flat, i, allResults) ==
    IF i > Len(flat) THEN allResults
    ELSE IF \E j \in 1..Len(allResults) :
                allResults[j].place_id = flat[i].place_id
         THEN dedupeFrom(flat, i + 1, allResults)
         ELSE dedupeFrom(flat, i + 1, Append(allResults, flat[i]))

dedupe(flat) == dedupeFrom(flat, 1, << >>)

(***************************************************************************)
(* Promises.                                                               *)
(***************************************************************************)
fulfilled(value) == [ state |-> "fulfilled", value |-> value ]
rejected == [ state |-> "rejected", value |-> << >> ]

\* the promise of searchNearbyPlaces / textSearchPlaces for request `via`
searchPromise(answer, via) ==
    IF rejects(answer) THEN rejected ELSE fulfilled(resolved(answer, via))

\* sub-queries without .catch
catchNothing(promise) == promise

\* promise.catch(err => { console.warn(...); return []; })
catchToEmpty(promise) ==
    IF promise.state = "rejected" THEN fulfilled(<< >>) ELSE promise

\* Promise.all over settled promises: rejected if one of them is rejected
promiseAll(promises) ==
    IF \E k \in 1..Len(promises) : promises[k].state = "rejected"
    THEN rejected
    ELSE fulfilled([ k \in 1..Len(promises) |-> promises[k].value ])

\* searchMultipleTypes once its requests are answered; answers[k] is the
\* answer to request k (types first, then keywords: the Promise.all order)
searchMultipleTypes(answers) ==
    LET all == promiseAll([ k \in 1..Len(answers) |->
                              catchToEmpty(searchPromise(answers[k], k)) ])
    IN  IF all.state = "rejected" THEN rejected
        ELSE fulfilled(dedupe(Flat(all.value)))

(***************************************************************************)
(* The provider as the hook sees it: one answer per request of a search.   *)
(***************************************************************************)
\* every request fails / every request finds nothing / every request answers
Scenarios == {"down", "zero", "up"}

\* the places request k of search s finds (every search finds other places)
idsOf(s, k) == << 1 + ((s + k) % NumPlaces), 1 + ((s + k + 1) % NumPlaces) >>

\* a busy area: request k of search s finds ManyWidth places in a row, the
\* last of them being the first one of request k + 1
manyIdsOf(s, k) == [ j \in 1..ManyWidth |-> s + (ManyWidth - 1) * (k - 1) + j ]

answerOf(sc, s, k) ==
    CASE sc = "down" -> Answer(UNKNOWN_ERROR, << >>)
      [] sc = "zero" -> Answer(ZERO_RESULTS, << >>)
      [] sc = "many" -> Answer(OK, manyIdsOf(s, k))
      [] OTHER -> Answer(OK, idsOf(s, k))

providerAnswers(sc, s, n) == [ k \in 1..n |-> answerOf(sc, s, k) ]

(***************************************************************************)
(* The usePlaces hook.                                                     *)
(***************************************************************************)
VARIABLES
    \* useState
    places, filteredPlaces, selectedPlace, placeDetails, loading, error,
    currentMood, currentMoodMapping, filters, sortBy,
    \* useRef
    serviceRef,          \* TRUE once the PlacesService exists
    searchAbortRef,      \* the search whose token is searchAbortRef.current
    \* hook options and module state of mapsLoader.js
    userLocation,        \* Null or a location
    googleInstance,      \* TRUE once the Maps API is loaded
    \* searches awaiting their provider answers, by start number
    sessions,
    \* the re-filter effect has to run (a dependency changed in the last render)
    effectPending,
    \* the effect threw: React unmounted the tree
    crashed,
    \* history: the number of searches started with a location (a search is
    \* known by its start number); the searchByMood started last; the number
    \* of filter and sort changes;
    \* the step just taken
    nStarted, latestMood, nChanges, last

hookVars ==
    << places, filteredPlaces, selectedPlace, placeDetails, loading, error,
       currentMood, currentMoodMapping, filters, sortBy, serviceRef,
       searchAbortRef, userLocation, googleInstance, sessions, effectPending,
       crashed, nStarted, latestMood, nChanges, last >>

NullPlace == [ null |-> TRUE ]
NullMood == [ null |-> TRUE ]
Str(s) == [ str |-> s ]

\* error.message
LocationRequired == "Location is required for search"
NotInitialized == "Places service not initialized"
SearchFailed == "Places search failed"
TypeError == "TypeError"

Here == "here"
Undefined == "undefined"

\* inputs of the handlers
coffee == <<"c","o","f","f","e","e">>
MoodInputs == { coffee, strConstructor }
LocationArgs == { Undefined, Null, Here }
TypeInputs == { "cafe" }
FilterInputs == { [ minRating |-> 40 ] }
SortInputs == { NEAREST, BEST_MATCH }

Step(op) ==
    [ op |-> op, id |-> 0, location |-> "none", issued |-> 0,
      resolvedMood |-> FALSE, outcome |-> "none", cause |-> "none",
      scenario |-> "none", aborted |-> FALSE ]

HookInit ==
    /\ places = << >>
    /\ filteredPlaces = << >>
    /\ selectedPlace = NullPlace
    /\ placeDetails = NullPlace
    /\ loading = FALSE
    /\ error = Null
    /\ currentMood = NullMood
    /\ currentMoodMapping = NullMapping
    /\ filters = DEFAULT_FILTERS
    /\ sortBy = BEST_MATCH
    /\ serviceRef = FALSE
    /\ searchAbortRef = 0
    /\ userLocation = Null
    /\ googleInstance = FALSE
    /\ sessions = << >>
    /\ effectPending = FALSE
    /\ crashed = FALSE
    /\ nStarted = 0
    /\ latestMood = 0
    /\ nChanges = 0
    /\ last = Step("init")

\* the handlers run between renders: the effect of the committed render has
\* run, and the tree is mounted
Idle == ~effectPending /\ ~crashed

\* location = userLocation (the default of the parameter)
locationOf(locArg) == IF locArg = Undefined THEN userLocation ELSE locArg

\* searchByMood / searchByType without the location check
noLocationNever(location) == FALSE

\* if (!location)
noLocation(location) == location = Null

\* initService(): the service is there, or createPlacesService makes it
\* (getGoogleMapsApi throws while the API is not loaded)
initService == serviceRef \/ googleInstance

\* searchByMood without lines 67-69: the previous token is left alone
abortPreviousNever(ss, ref) == ss

\* searchAbortRef.current.abort = true of searchByMood
abortPrevious(ss, ref) ==
    [ s \in DOMAIN ss |-> IF s = ref THEN [ ss[s] EXCEPT !.abort = TRUE ]
                                    ELSE ss[s] ]

\* a useEffect dependency holding an object changed: a table entry is the
\* same object every time, the fallback mapping is a new object every time
mappingChanged(old, new) ==
    old # new \/ (isProfile(new) /\ new.description = "General search")

addSession(ss, id, session) ==
    [ s \in DOMAIN ss \cup {id} |-> IF s = id THEN session ELSE ss[s] ]
removeSession(ss, id) == [ s \in DOMAIN ss \ {id} |-> ss[s] ]

GeolocationResolved ==
    /\ Idle
    /\ userLocation = Null
    /\ userLocation' = Here
    /\ last' = Step("geolocation")
    /\ UNCHANGED << places, filteredPlaces, selectedPlace, placeDetails,
                    loading, error, currentMood, currentMoodMapping, filters,
                    sortBy, serviceRef, searchAbortRef, googleInstance,
                    sessions, effectPending, crashed, nStarted,
                    latestMood, nChanges >>

GoogleMapsLoaded ==
    /\ Idle
    /\ ~googleInstance
    /\ googleInstance' = TRUE
    /\ last' = Step("mapsLoaded")
    /\ UNCHANGED << places, filteredPlaces, selectedPlace, placeDetails,
                    loading, error, currentMood, currentMoodMapping, filters,
                    sortBy, serviceRef, searchAbortRef, userLocation,
                    sessions, effectPending, crashed, nStarted,
                    latestMood, nChanges >>

\* catch blocks that keep the published list
catchResultsStale == places

\* setPlaces([]); setFilteredPlaces([]) of the catch blocks
catchResults == << >>

\* searchByMood(mood, location)
SearchByMood(mood, locArg) ==
    LET location == locationOf(locArg)
        id == nStarted + 1
        moodMapping == getMoodMapping(mood)
        issued == Len(moodMapping.types) + Len(moodMapping.keywords)
    IN
    /\ Idle
    /\ IF noLocation(location)
       THEN \* setError(new Error('Location is required for search')); return
            /\ error' = LocationRequired
            /\ last' = [ Step("searchByMood") EXCEPT !.location = location,
                            !.outcome = "failed", !.cause = "no-location" ]
            /\ UNCHANGED << places, filteredPlaces, selectedPlace, placeDetails,
                            loading, currentMood, currentMoodMapping,
                            serviceRef, searchAbortRef, sessions,
                            effectPending, nStarted,
                            latestMood >>
       ELSE /\ nStarted + nChanges < MaxOps
            /\ nStarted' = id
            /\ searchAbortRef' = id
            /\ latestMood' = id
            /\ currentMood' = Str(mood)
            /\ selectedPlace' = NullPlace
            /\ placeDetails' = NullPlace
            /\ IF ~initService
               THEN \* throw new Error('Places service not initialized'),
                    \* caught with the token of this search not aborted
                    /\ error' = NotInitialized
                    /\ places' = catchResults
                    /\ filteredPlaces' = catchResults
                    /\ loading' = FALSE
                    /\ effectPending' = TRUE
                    /\ sessions' = abortPrevious(sessions, searchAbortRef)
                    /\ last' = [ Step("searchByMood") EXCEPT
                                    !.id = id, !.location = location,
                                    !.outcome = "failed", !.cause = "no-service" ]
                    /\ UNCHANGED << currentMoodMapping, serviceRef >>
               ELSE /\ serviceRef' = TRUE
                    /\ currentMoodMapping' = moodMapping
                    /\ IF ~isProfile(moodMapping)
                       THEN \* types.map of searchMultipleTypes throws: the
                            \* promise is rejected before any request is made
                            /\ error' = TypeError
                            /\ places' = catchResults
                            /\ filteredPlaces' = catchResults
                            /\ loading' = FALSE
                            /\ effectPending' = TRUE
                            /\ sessions' = abortPrevious(sessions, searchAbortRef)
                            /\ last' = [ Step("searchByMood") EXCEPT
                                    !.id = id, !.location = location,
                                            !.resolvedMood = TRUE,
                                            !.outcome = "failed",
                                            !.cause = "rejected" ]
                       ELSE /\ error' = Null
                            /\ loading' = TRUE
                            /\ effectPending' =
                                 mappingChanged(currentMoodMapping, moodMapping)
                            /\ sessions' =
                                 addSession(abortPrevious(sessions, searchAbortRef),
                                            id,
                                            [ kind |-> "mood", abort |-> FALSE,
                                              moodMapping |-> moodMapping,
                                              filters |-> filters,
                                              sortBy |-> sortBy,
                                              requests |-> issued ])
                            /\ last' = [ Step("searchByMood") EXCEPT
                                    !.id = id, !.location = location,
                                            !.resolvedMood = TRUE,
                                            !.issued = issued,
                                            !.outcome = "searching" ]
                            /\ UNCHANGED << places, filteredPlaces >>
    /\ UNCHANGED << filters, sortBy, userLocation, googleInstance, crashed,
                    nChanges >>

\* searchByType(type, location)
SearchByType(type, locArg) ==
    LET location == locationOf(locArg)
        id == nStarted + 1
    IN
    /\ Idle
    /\ IF noLocation(location)
       THEN /\ error' = LocationRequired
            /\ last' = [ Step("searchByType") EXCEPT !.location = location,
                            !.outcome = "failed", !.cause = "no-location" ]
            /\ UNCHANGED << places, filteredPlaces, selectedPlace, placeDetails,
                            loading, currentMood, currentMoodMapping,
                            serviceRef, sessions, effectPending, nStarted >>
       ELSE /\ nStarted + nChanges < MaxOps
            /\ nStarted' = id
            /\ currentMood' = NullMood
            /\ currentMoodMapping' = NullMapping
            /\ selectedPlace' = NullPlace
            /\ placeDetails' = NullPlace
            /\ IF ~initService
               THEN /\ error' = NotInitialized
                    /\ places' = catchResults
                    /\ filteredPlaces' = catchResults
                    /\ loading' = FALSE
                    /\ effectPending' = TRUE
                    /\ last' = [ Step("searchByType") EXCEPT !.id = id, !.location = location,
                                    !.outcome = "failed", !.cause = "no-service" ]
                    /\ UNCHANGED << serviceRef, sessions >>
               ELSE /\ serviceRef' = TRUE
                    /\ error' = Null
                    /\ loading' = TRUE
                    /\ effectPending' = (currentMoodMapping # NullMapping)
                    /\ sessions' =
                         addSession(sessions, id,
                                    [ kind |-> "type", abort |-> FALSE,
                                      moodMapping |-> NullMapping,
                                      filters |-> filters, sortBy |-> sortBy,
                                      requests |-> 1 ])
                    /\ last' = [ Step("searchByType") EXCEPT !.id = id, !.location = location,
                                    !.issued = 1, !.outcome = "searching" ]
                    /\ UNCHANGED << places, filteredPlaces >>
    /\ UNCHANGED << filters, sortBy, searchAbortRef, userLocation,
                    googleInstance, crashed,
                    latestMood, nChanges >>

\* if (currentSearch.abort) return;
discardResults(session) == session.abort
\* catch (err) { if (!currentSearch.abort) ... }
catchPublishes(session) == ~session.abort
\* finally { setLoading(false) } without the abort check
finallyClearsLoadingAlways(session) == TRUE
\* no setLoading(false) in finally
finallyClearsLoadingNever(session) == FALSE

\* finally { if (!currentSearch.abort) setLoading(false) }
finallyClearsLoading(session) == ~session.abort

\* results.map(place => ({...place, relevanceScore: ...}))
withScores(results, moodMapping) ==
    [ i \in 1..Len(results) |->
        [ results[i] EXCEPT
            !.relevanceScore = calculateRelevanceScore(results[i], moodMapping) ] ]

\* the continuation of searchByMood after await searchMultipleTypes(...):
\* search s receives the answers of all its requests
MoodResponse(s, sc) ==
    LET session == sessions[s]
        promise == searchMultipleTypes(providerAnswers(sc, s, session.requests))
        limitedResults ==
            Slice(withScores(promise.value, session.moodMapping), MAX_RESULTS)
        processed ==
            filterAndSortPlaces(limitedResults, session.filters, session.sortBy,
                                session.moodMapping)
        step == [ Step("moodResponse") EXCEPT !.id = s, !.scenario = sc,
                                              !.aborted = session.abort ]
    IN
    /\ Idle
    /\ s \in DOMAIN sessions
    /\ session.kind = "mood"
    /\ sessions' = removeSession(sessions, s)
    /\ IF promise.state = "rejected"
       THEN /\ IF catchPublishes(session)
               THEN /\ error' = SearchFailed
                    /\ places' = catchResults
                    /\ filteredPlaces' = catchResults
                    /\ effectPending' = TRUE
                    /\ last' = [ step EXCEPT !.outcome = "failed",
                                             !.cause = "rejected" ]
               ELSE /\ last' = [ step EXCEPT !.outcome = "cancelled" ]
                    /\ UNCHANGED << error, places, filteredPlaces,
                                    effectPending >>
            /\ loading' = IF finallyClearsLoading(session) THEN FALSE ELSE loading
       ELSE IF discardResults(session)
            THEN /\ last' = [ step EXCEPT !.outcome = "cancelled" ]
                 /\ loading' = IF finallyClearsLoading(session) THEN FALSE
                                                                ELSE loading
                 /\ UNCHANGED << error, places, filteredPlaces,
                                 effectPending >>
            ELSE /\ places' = limitedResults
                 /\ filteredPlaces' = processed
                 /\ effectPending' = TRUE
                 /\ last' = [ step EXCEPT !.outcome = "completed" ]
                 /\ loading' = IF finallyClearsLoading(session) THEN FALSE
                                                                ELSE loading
                 /\ UNCHANGED error
    /\ UNCHANGED << selectedPlace, placeDetails, currentMood,
                    currentMoodMapping, filters, sortBy, serviceRef,
                    searchAbortRef, userLocation, googleInstance, crashed,
                    nStarted,
                    latestMood, nChanges >>

\* the continuation of searchByType after await searchNearbyPlaces(...)
TypeResponse(s, sc) ==
    LET session == sessions[s]
        promise == searchPromise(answerOf(sc, s, 1), 1)
        limitedResults == Slice(promise.value, MAX_RESULTS)
        processed ==
            filterAndSortPlaces(limitedResults, session.filters, session.sortBy,
                                NullMapping)
        step == [ Step("typeResponse") EXCEPT !.id = s, !.scenario = sc ]
    IN
    /\ Idle
    /\ s \in DOMAIN sessions
    /\ session.kind = "type"
    /\ sessions' = removeSession(sessions, s)
    /\ IF promise.state = "rejected"
       THEN /\ error' = SearchFailed
            /\ places' = catchResults
            /\ filteredPlaces' = catchResults
            /\ last' = [ step EXCEPT !.outcome = "failed", !.cause = "rejected" ]
       ELSE /\ places' = limitedResults
            /\ filteredPlaces' = processed
            /\ last' = [ step EXCEPT !.outcome = "completed" ]
            /\ UNCHANGED error
    /\ effectPending' = TRUE
    /\ loading' = FALSE
    /\ UNCHANGED << selectedPlace, placeDetails, currentMood,
                    currentMoodMapping, filters, sortBy, serviceRef,
                    searchAbortRef, userLocation, googleInstance, crashed,
                    nStarted,
                    latestMood, nChanges >>

\* {...prev, ...newFilters}
mergeFilters(prev, newFilters) ==
    [ k \in DOMAIN prev |-> IF k \in DOMAIN newFilters THEN newFilters[k]
                                                       ELSE prev[k] ]

UpdateFilters(newFilters) ==
    /\ Idle
    /\ nStarted + nChanges < MaxOps
    /\ nChanges' = nChanges + 1
    /\ filters' = mergeFilters(filters, newFilters)
    /\ effectPending' = TRUE
    /\ last' = Step("updateFilters")
    /\ UNCHANGED << places, filteredPlaces, selectedPlace, placeDetails,
                    loading, error, currentMood, currentMoodMapping, sortBy,
                    serviceRef, searchAbortRef, userLocation, googleInstance,
                    sessions, crashed, nStarted, latestMood >>

ResetFilters ==
    /\ Idle
    /\ nStarted + nChanges < MaxOps
    /\ nChanges' = nChanges + 1
    /\ filters' = DEFAULT_FILTERS
    /\ effectPending' = (filters # DEFAULT_FILTERS)
    /\ last' = Step("resetFilters")
    /\ UNCHANGED << places, filteredPlaces, selectedPlace, placeDetails,
                    loading, error, currentMood, currentMoodMapping, sortBy,
                    serviceRef, searchAbortRef, userLocation, googleInstance,
                    sessions, crashed, nStarted, latestMood >>

UpdateSort(newSortBy) ==
    /\ Idle
    /\ nStarted + nChanges < MaxOps
    /\ nChanges' = nChanges + 1
    /\ sortBy' = newSortBy
    /\ effectPending' = (sortBy # newSortBy)
    /\ last' = Step("updateSort")
    /\ UNCHANGED << places, filteredPlaces, selectedPlace, placeDetails,
                    loading, error, currentMood, currentMoodMapping, filters,
                    serviceRef, searchAbortRef, userLocation, googleInstance,
                    sessions, crashed, nStarted, latestMood >>

ClearResults ==
    /\ Idle
    /\ places' = << >>
    /\ filteredPlaces' = << >>
    /\ selectedPlace' = NullPlace
    /\ placeDetails' = NullPlace
    /\ currentMood' = NullMood
    /\ currentMoodMapping' = NullMapping
    /\ error' = Null
    /\ effectPending' = TRUE
    /\ last' = Step("clearResults")
    /\ UNCHANGED << loading, filters, sortBy, serviceRef, searchAbortRef,
                    userLocation, googleInstance, sessions, crashed, nStarted,
                    latestMood, nChanges >>

\* an effect that runs and leaves the list on show as it is
RefilterEffectSkips ==
    /\ effectPending
    /\ ~crashed
    /\ effectPending' = FALSE
    /\ crashed' = (/\ Len(places) > 0
                   /\ sortThrows(filterPlaces(places, filters), sortBy,
                                 currentMoodMapping))
    /\ last' = Step("effect")
    /\ UNCHANGED << places, filteredPlaces, selectedPlace,
                    placeDetails, loading, error,
                    currentMood, currentMoodMapping, filters, sortBy,
                    serviceRef, searchAbortRef, userLocation, googleInstance,
                    sessions, nStarted,
                    latestMood, nChanges >>

\* an effect that stores the filtered list as the result list as well
RefilterEffectOverwrites ==
    /\ effectPending
    /\ ~crashed
    /\ effectPending' = FALSE
    /\ IF Len(places) > 0
       THEN IF sortThrows(filterPlaces(places, filters), sortBy,
                          currentMoodMapping)
            THEN crashed' = TRUE /\ UNCHANGED << places, filteredPlaces >>
            ELSE /\ filteredPlaces' =
                      filterAndSortPlaces(places, filters, sortBy,
                                          currentMoodMapping)
                 /\ places' = filteredPlaces'
                 /\ UNCHANGED crashed
       ELSE UNCHANGED << places, filteredPlaces, crashed >>
    /\ last' = Step("effect")
    /\ UNCHANGED << selectedPlace, placeDetails, loading, error,
                    currentMood, currentMoodMapping, filters, sortBy,
                    serviceRef, searchAbortRef, userLocation, googleInstance,
                    sessions, nStarted,
                    latestMood, nChanges >>

\* useEffect(() => { if (places.length > 0) setFilteredPlaces(...) },
\*           [places, filters, sortBy, currentMoodMapping])
RefilterEffect ==
    /\ effectPending
    /\ ~crashed
    /\ effectPending' = FALSE
    /\ IF Len(places) > 0
       THEN IF sortThrows(filterPlaces(places, filters), sortBy,
                          currentMoodMapping)
            THEN crashed' = TRUE /\ UNCHANGED filteredPlaces
            ELSE /\ filteredPlaces' =
                      filterAndSortPlaces(places, filters, sortBy,
                                          currentMoodMapping)
                 /\ UNCHANGED crashed
       ELSE UNCHANGED << filteredPlaces, crashed >>
    /\ last' = Step("effect")
    /\ UNCHANGED << places, selectedPlace, placeDetails, loading, error,
                    currentMood, currentMoodMapping, filters, sortBy,
                    serviceRef, searchAbortRef, userLocation, googleInstance,
                    sessions, nStarted,
                    latestMood, nChanges >>

(***************************************************************************)
(* searchMultipleTypes request by request: the requests are issued at      *)
(* once, their callbacks arrive in any order.                              *)
(***************************************************************************)
VARIABLES
    aggPc,          \* "idle", "waiting", "resolved" or "rejected"
    aggOptions,     \* options.types and options.keywords of the call
    aggRequests,    \* the requests issued, in issue order, with their answers
    aggFirst,       \* the request whose callback ran first (0: none has run)
    aggResult       \* the array the promise resolved with

aggVars == << aggPc, aggOptions, aggRequests, aggFirst, aggResult >>

\* one call of a function of moodMapping.js or filterSort.js
VARIABLES
    fnCall,         \* the function called and its arguments
    fnRet           \* what the call returned

fnVars == << fnCall, fnRet >>

\* the detail fetches of selectPlace
VARIABLES
    detailsCache,   \* placesApi.js detailsCache: the place ids with a fresh entry
    detailRequests, \* getDetails calls awaiting their callback, by call number
    nSelected       \* history: the number of selectPlace calls

selVars == << detailsCache, detailRequests, nSelected >>

\* history: the number of searches started when clearResults ran last (the
\* empty set before the first clearResults)
VARIABLE clearedAt

histVars == << clearedAt >>

\* module state of mapsLoader.js besides googleInstance
VARIABLES
    apiKey,         \* import.meta.env.VITE_GOOGLE_MAPS_API_KEY
    loaderInstance, \* TRUE once the Loader exists
    loadPromise,    \* 0 (null) or the attempt whose promise is stored
    loadAttempts,   \* the state of the promise of every attempt
    loaderLoads,    \* history: the number of loader.load() calls
    loadCalls       \* history: what each loadGoogleMapsApi call returned

loaderVars ==
    << apiKey, loaderInstance, loadPromise, loadAttempts, loaderLoads,
       loadCalls >>

vars == << hookVars, aggVars, fnVars, selVars, histVars, loaderVars >>

Pending == Answer("pending", << >>)

\* options.types and options.keywords: prefixes of the lists of a profile
optionsProfile == getMoodMapping(<<"f","a","m","i","l","y">>)

\* the answers a request can get: a failure, no results, or up to MaxResp
\* places of the catalog in a row, from one of two places on (so that the
\* answers of two requests can share places)
AnswerStarts == {1, 2}
idsFrom(a, n) == [ j \in 1..n |-> 1 + ((a + j - 2) % NumPlaces) ]
Answers ==
    { Answer(UNKNOWN_ERROR, << >>), Answer(ZERO_RESULTS, << >>) }
    \cup { Answer(OK, idsFrom(a, n)) : a \in AnswerStarts, n \in 1..MaxResp }

AggInit ==
    /\ aggPc = "idle"
    /\ aggOptions = [ types |-> << >>, keywords |-> << >> ]
    /\ aggRequests = << >>
    /\ aggFirst = 0
    /\ aggResult = << >>

\* types.map(type => searchNearbyPlaces(...).catch(...)) and
\* keywords.map(keyword => textSearchPlaces(...).catch(...))
AggStart(nTypes, nKeywords) ==
    LET types == SubSeq(optionsProfile.types, 1, nTypes)
        keywords == SubSeq(optionsProfile.keywords, 1, nKeywords)
        typeRequests ==
            [ i \in 1..nTypes |->
                [ api |-> "nearbySearch", arg |-> [ type |-> types[i] ],
                  answer |-> Pending ] ]
        keywordRequests ==
            [ i \in 1..nKeywords |->
                [ api |-> "textSearch", arg |-> [ query |-> keywords[i] ],
                  answer |-> Pending ] ]
        requests == typeRequests \o keywordRequests
    IN
    /\ aggPc = "idle"
    /\ aggOptions' = [ types |-> types, keywords |-> keywords ]
    /\ aggRequests' = requests
    /\ UNCHANGED aggFirst
    /\ IF requests = << >>
       THEN \* Promise.all([]) is fulfilled at once
            aggPc' = "resolved" /\ aggResult' = << >>
       ELSE aggPc' = "waiting" /\ UNCHANGED aggResult
    /\ UNCHANGED << hookVars, fnVars, selVars, histVars, loaderVars >>

answered(requests) == { k \in 1..Len(requests) : requests[k].answer # Pending }

\* the callback of request k runs with its answer; Promise.all settles when
\* the last promise is fulfilled or the first one is rejected
AggCallback(k, answer) ==
    LET requests == [ aggRequests EXCEPT ![k].answer = answer ]
        promise == catchToEmpty(searchPromise(answer, k))
        all == searchMultipleTypes([ i \in 1..Len(requests) |-> requests[i].answer ])
    IN
    /\ aggPc = "waiting"
    /\ k \in 1..Len(aggRequests)
    /\ aggRequests[k].answer = Pending
    /\ aggRequests' = requests
    /\ aggFirst' = IF aggFirst = 0 THEN k ELSE aggFirst
    /\ UNCHANGED aggOptions
    /\ IF promise.state = "rejected"
       THEN aggPc' = "rejected" /\ UNCHANGED aggResult
       ELSE IF answered(requests) = 1..Len(requests)
            THEN aggPc' = "resolved" /\ aggResult' = all.value
            ELSE UNCHANGED << aggPc, aggResult >>
    /\ UNCHANGED << hookVars, fnVars, selVars, histVars, loaderVars >>

(***************************************************************************)
(* Single calls of the pure functions.                                     *)
(***************************************************************************)
NoCall == [ fn |-> "none" ]

FnInit ==
    /\ fnCall = NoCall
    /\ fnRet = [ value |-> Absent ]

\* places as calculateRelevanceScore reads them: every optional field absent,
\* falsy, or on either side of each threshold of the function
ScoreTypes ==
    { {}, {"cafe"}, {"restaurant"}, {"restaurant", "cafe"}, {"bank"},
      {"restaurant", "park", "amusement_park", "zoo", "aquarium"} }
ScorePlaces ==
    [ types : ScoreTypes,
      price_level : {Absent, 0, 2, 4},
      rating : {Absent, 0, 30, 35, 40, 45, 47},
      user_ratings_total : {Absent, 0, 20, 50, 100, 500},
      opening_hours : OpeningHours,
      distance : {Absent, 0, 200, 500, 3000, 3500} ]

\* profiles: one type, several types, with and without prioritizeRating, and
\* the fallback profile
ScoreMoods ==
    { coffee, <<"q","u","i","c","k"," ","b","i","t","e">>,
      <<"f","a","m","i","l","y">>, <<"x","q">> }
ScoreProfiles == { getMoodMapping(mood) : mood \in ScoreMoods }

\* calculateRelevanceScore(place, moodMapping)
ScoreCall(place, moodMapping) ==
    /\ fnCall = NoCall
    /\ fnCall' = [ fn |-> "calculateRelevanceScore", place |-> place,
                   moodMapping |-> moodMapping ]
    /\ fnRet' = [ value |-> calculateRelevanceScore(place, moodMapping) ]
    /\ UNCHANGED << hookVars, aggVars, selVars, histVars, loaderVars >>

\* inputs of getMoodMapping: every key of the table as it is, in upper case,
\* with spaces around it and with hyphens for its spaces ...
toUpperCase(s) ==
    [ i \in 1..Len(s) |->
        IF \E k \in 1..26 : LowerCase[k] = s[i]
        THEN UpperCase[CHOOSE k \in 1..26 : LowerCase[k] = s[i]]
        ELSE s[i] ]
hyphenate(s) == [ i \in 1..Len(s) |-> IF s[i] = " " THEN "-" ELSE s[i] ]
KeyVariants(i) ==
    LET key == moodMappings[i].key
    IN  { key, toUpperCase(key), <<" ">> \o key \o <<" ", " ">>,
          hyphenate(key) }
\* ... and inputs that are no key: empty, blank, a part of a key ("din",
\* "kid": the keyword kids of family comes before the key kids), a text
\* around a key, a keyword or a part of one, no match at all, and the names
\* of the properties every object inherits
OtherMoods ==
    { << >>, <<" ", " ">>, <<"d","i","n">>, <<"k","i","d">>,
      <<"D","i","n","n","e","r"," ","d","a","t","e">>,
      <<"l","a","t","t","e">>, <<"p","i","z","z","a","s">>,
      <<"b","a","r">>, <<"w","i","-","f","i">>, <<"x","q">>,
      <<"7","-","1","1">>, strConstructor, strProto,
      <<"C","o","n","s","t","r","u","c","t","o","r">> }
MoodCallInputs == UNION { KeyVariants(i) : i \in 1..NumMoods } \cup OtherMoods

\* getMoodMapping(mood)
MoodCall(mood) ==
    /\ fnCall = NoCall
    /\ fnCall' = [ fn |-> "getMoodMapping", mood |-> mood ]
    /\ fnRet' = [ value |-> getMoodMapping(mood) ]
    /\ UNCHANGED << hookVars, aggVars, selVars, histVars, loaderVars >>

\* inputs of getMoodSuggestions: empty, blank, matching nothing, matching
\* keys only, keywords only, both (a keyword match before a key match in
\* table order), and more than six entries
SuggestInputs ==
    { << >>, <<" ">>, <<"z","z","z">>, <<"g","y","m">>, <<"K","i","d"," ">>,
      <<"l","a","t","t","e">>, <<"c","o">>, <<"a","r","t">>, <<"b","a","r">>,
      <<"a">>, <<"e">>, <<"b","r","u","n","c","h">>, <<"f","i">> }

\* getMoodSuggestions(input)
SuggestCall(input, engine) ==
    /\ fnCall = NoCall
    /\ fnCall' = [ fn |-> "getMoodSuggestions", input |-> input,
                   engine |-> engine ]
    /\ fnRet' = [ value |-> getMoodSuggestions(input, engine) ]
    /\ UNCHANGED << hookVars, aggVars, selVars, histVars, loaderVars >>

(***************************************************************************)
(* distance.js: formatDistance, for whole numbers of metres.  The          *)
(* quotients are IEEE doubles: n / 10 and n / 1000 are exact at the        *)
(* half-way cases of Math.round; toFixed(1) rounds the double nearest to   *)
(* n / 1000, which lies below n / 1000, on it or above it.                 *)
(***************************************************************************)
\* Math.floor(num / den)
mathFloor(num, den) == num \div den

\* Math.round(num / den): the nearest integer, a half rounded up
mathRound(num, den) == (2 * num + den) \div (2 * den)

\* the binary exponent of n / 1000 for 1000 <= n < 10000
exponentOf(n) ==
    IF n < 2000 THEN 0 ELSE IF n < 4000 THEN 1 ELSE IF n < 8000 THEN 2 ELSE 3

\* 2^k modulo 125
RECURSIVE pow2mod125(_)
pow2mod125(k) == IF k = 0 THEN 1 ELSE (2 * pow2mod125(k - 1)) % 125

\* the 53-bit significand of n / 1000 is n * 2^(52 - e) / 1000
\* = n * 2^(49 - e) / 125 rounded to the nearest integer: the remainder of
\* that division tells which way the double was rounded
doubleError(n) ==
    LET rem == ((n % 125) * pow2mod125(49 - exponentOf(n))) % 125
    IN  IF rem = 0 THEN "exact" ELSE IF rem <= 62 THEN "below" ELSE "above"

\* (n / 1000).toFixed(1), in tenths: the tenth nearest to the double, the
\* larger one if the double is half-way
toFixed1(n) ==
    IF n % 100 = 50 /\ doubleError(n) = "below"
    THEN n \div 100
    ELSE mathRound(n, 100)

\* `${whole} m`, `${whole} km` and `${tenths / 10} km` with one decimal
template(whole, unit) == ToString(whole) \o " " \o unit
template1(tenths, unit) ==
    ToString(tenths \div 10) \o "." \o ToString(tenths % 10) \o " " \o unit

formatDistance(distanceInMeters) ==
    IF distanceInMeters < 100
    THEN template(mathRound(distanceInMeters, 1), "m")
    ELSE IF distanceInMeters < 1000
    THEN template(mathRound(distanceInMeters, 10) * 10, "m")
    ELSE IF distanceInMeters < 10000
    THEN template1(toFixed1(distanceInMeters), "km")
    ELSE template(mathRound(distanceInMeters, 1000), "km")

\* formatDistance(distanceInMeters)
FormatCall(distanceInMeters) ==
    /\ fnCall = NoCall
    /\ fnCall' = [ fn |-> "formatDistance",
                   distanceInMeters |-> distanceInMeters ]
    /\ fnRet' = [ value |-> formatDistance(distanceInMeters) ]
    /\ UNCHANGED << hookVars, aggVars, selVars, histVars, loaderVars >>

\* a record the provider filled with nothing
noData ==
    [ place_id |-> NumPlaces + 1, via |-> 1, name |-> << >>,
      vicinity |-> << >>, types |-> {}, rating |-> Absent,
      user_ratings_total |-> Absent, price_level |-> Absent,
      opening_hours |-> "absent", distance |-> Absent,
      relevanceScore |-> Absent ]

\* arguments of filterAndSortPlaces: lists of up to MaxPlaces places, the same
\* place more than once included; the default filters, each criterion on
\* its own, and three at once; every sort option; no mood mapping or a profile
BenchPlaces == { withDistance(i, 1) : i \in 1..NumPlaces } \cup { noData }
BenchLists == UNION { [ 1..n -> BenchPlaces ] : n \in 0..MaxPlaces }
BenchFilters ==
    { DEFAULT_FILTERS,
      [ DEFAULT_FILTERS EXCEPT !.minRating = 40 ],
      [ DEFAULT_FILTERS EXCEPT !.maxDistance = 500 ],
      [ DEFAULT_FILTERS EXCEPT !.openNow = TRUE ],
      [ DEFAULT_FILTERS EXCEPT !.priceLevel = PriceSet({1, 2}) ],
      [ DEFAULT_FILTERS EXCEPT !.priceLevel = PriceMax(2) ],
      [ DEFAULT_FILTERS EXCEPT !.types = {"cafe"} ],
      [ DEFAULT_FILTERS EXCEPT !.searchQuery = <<"J","o">> ],
      [ DEFAULT_FILTERS EXCEPT !.minRating = 40, !.maxDistance = 500,
                               !.priceLevel = PriceSet({0, 2}) ] }
BenchMappings == { NullMapping, getMoodMapping(coffee) }

\* filterAndSortPlaces(places, filters, sortBy, moodMapping)
FilterCall(list, criteria, mode, moodMapping) ==
    /\ fnCall = NoCall
    /\ fnCall' = [ fn |-> "filterAndSortPlaces", places |-> list,
                   filters |-> criteria, sortBy |-> mode,
                   moodMapping |-> moodMapping ]
    /\ fnRet' = [ value |->
                    filterAndSortPlaces(list, criteria, mode, moodMapping) ]
    /\ UNCHANGED << hookVars, aggVars, selVars, histVars, loaderVars >>

(***************************************************************************)
(* Selection: selectPlace, loadPlaceDetails, clearSelection and the        *)
(* details cache of placesApi.js.                                          *)
(***************************************************************************)
MaxSelects == 2

SelInit ==
    /\ detailsCache = {}
    /\ detailRequests = << >>
    /\ nSelected = 0

HistInit == clearedAt = {}

\* error.message of getGoogleMapsApi
NotLoaded == "Google Maps API not loaded. Call loadGoogleMapsApi() first."

\* what the user can select: a place of the result list, a marker that is
\* not a provider place (no place_id), or nothing
customMarker == [ name |-> <<"p","i","n">> ]
SelectInputs ==
    { withDistance(i, 1) : i \in 1..2 } \cup { customMarker, NullPlace }

\* place?.place_id
placeIdOf(place) ==
    IF "place_id" \in DOMAIN place THEN place.place_id ELSE Absent

\* the result of service.getDetails for a place id
detailsOf(placeId) ==
    [ place_id |-> placeId, name |-> placeOf(placeId).name,
      formatted_address |-> placeOf(placeId).vicinity ]

\* selectPlace(place), up to the await of loadPlaceDetails; a cached entry
\* resolves the await before anything else runs
SelectPlace(place) ==
    LET placeId == placeIdOf(place)
        call == nSelected + 1
    IN
    /\ Idle
    /\ nSelected < MaxSelects
    /\ nSelected' = call
    /\ selectedPlace' = place
    /\ IF placeId = Absent
       THEN \* setPlaceDetails(null)
            /\ placeDetails' = NullPlace
            /\ UNCHANGED << error, serviceRef, detailRequests >>
       ELSE IF ~initService
            THEN \* initService: setError(err); the throw is caught and logged
                 /\ error' = NotLoaded
                 /\ UNCHANGED << placeDetails, serviceRef, detailRequests >>
            ELSE /\ serviceRef' = TRUE
                 /\ IF placeId \in detailsCache
                    THEN /\ placeDetails' = detailsOf(placeId)
                         /\ UNCHANGED detailRequests
                    ELSE /\ detailRequests' =
                              addSession(detailRequests, call, placeId)
                         /\ UNCHANGED placeDetails
                 /\ UNCHANGED error
    /\ last' = [ Step("selectPlace") EXCEPT !.id = call ]
    /\ UNCHANGED << places, filteredPlaces, loading, currentMood,
                    currentMoodMapping, filters, sortBy, searchAbortRef,
                    userLocation, googleInstance, sessions, effectPending,
                    crashed, nStarted, latestMood, nChanges, detailsCache >>

\* the callback of service.getDetails and the continuation of
\* loadPlaceDetails: detailsCache.set, resolve, setPlaceDetails(details); or
\* reject, caught and logged
DetailsResponse(call, ok) ==
    LET placeId == detailRequests[call] IN
    /\ Idle
    /\ call \in DOMAIN detailRequests
    /\ detailRequests' = removeSession(detailRequests, call)
    /\ IF ok
       THEN /\ detailsCache' = detailsCache \cup {placeId}
            /\ placeDetails' = detailsOf(placeId)
       ELSE UNCHANGED << detailsCache, placeDetails >>
    /\ last' = [ Step("detailsResponse") EXCEPT
                    !.id = call, !.outcome = IF ok THEN "completed" ELSE "failed" ]
    /\ UNCHANGED << places, filteredPlaces, selectedPlace, loading, error,
                    currentMood, currentMoodMapping, filters, sortBy,
                    serviceRef, searchAbortRef, userLocation, googleInstance,
                    sessions, effectPending, crashed, nStarted, latestMood,
                    nChanges, nSelected >>

\* Date.now() - cached.timestamp reaches CACHE_DURATION
CacheExpires(placeId) ==
    /\ placeId \in detailsCache
    /\ detailsCache' = detailsCache \ {placeId}
    /\ last' = Step("cacheExpires")
    /\ UNCHANGED << places, filteredPlaces, selectedPlace, placeDetails,
                    loading, error, currentMood, currentMoodMapping, filters,
                    sortBy, serviceRef, searchAbortRef, userLocation,
                    googleInstance, sessions, effectPending, crashed,
                    nStarted, latestMood, nChanges, detailRequests,
                    nSelected >>

ClearSelection ==
    /\ Idle
    /\ selectedPlace' = NullPlace
    /\ placeDetails' = NullPlace
    /\ last' = Step("clearSelection")
    /\ UNCHANGED << places, filteredPlaces, loading, error, currentMood,
                    currentMoodMapping, filters, sortBy, serviceRef,
                    searchAbortRef, userLocation, googleInstance, sessions,
                    effectPending, crashed, nStarted, latestMood, nChanges,
                    selVars >>

(***************************************************************************)
(* mapsLoader.js: getLoader and loadGoogleMapsApi.                         *)
(***************************************************************************)
MaxCalls == 5

\* the key of the build: set, left out, or the placeholder of .env.example
Placeholder == "your_google_maps_api_key_here"
ApiKeys == { "key", "", Placeholder }

LoaderInit(key) ==
    /\ apiKey = key
    /\ loaderInstance = FALSE
    /\ loadPromise = 0
    /\ loadAttempts = << >>
    /\ loaderLoads = 0
    /\ loadCalls = << >>

\* if (!apiKey || apiKey === 'your_google_maps_api_key_here')
notConfigured == apiKey = "" \/ apiKey = Placeholder

\* getLoader() throws
getLoaderThrows == ~loaderInstance /\ notConfigured

\* loadGoogleMapsApi()
LoadGoogleMapsApi ==
    LET attempt == Len(loadAttempts) + 1 IN
    /\ Len(loadCalls) < MaxCalls
    /\ IF googleInstance
       THEN /\ loadCalls' = Append(loadCalls, [ got |-> "instance", attempt |-> 0 ])
            /\ UNCHANGED << loaderInstance, loadPromise, loadAttempts,
                            loaderLoads >>
       ELSE IF loadPromise # 0
            THEN /\ loadCalls' = Append(loadCalls, [ got |-> "promise",
                                                     attempt |-> loadPromise ])
                 /\ UNCHANGED << loaderInstance, loadPromise, loadAttempts,
                                 loaderLoads >>
            ELSE /\ loadCalls' = Append(loadCalls, [ got |-> "promise",
                                                     attempt |-> attempt ])
                 /\ IF getLoaderThrows
                    THEN \* the async function runs up to its first await
                         \* before loadPromise = ... stores its promise: the
                         \* catch block sets loadPromise = null, then the
                         \* assignment stores the rejected promise
                         /\ loadAttempts' = Append(loadAttempts, "rejected")
                         /\ loadPromise' = attempt
                         /\ UNCHANGED << loaderInstance, loaderLoads >>
                    ELSE /\ loaderInstance' = TRUE
                         /\ loaderLoads' = loaderLoads + 1
                         /\ loadAttempts' = Append(loadAttempts, "pending")
                         /\ loadPromise' = attempt
    /\ last' = Step("loadGoogleMapsApi")
    /\ UNCHANGED << places, filteredPlaces, selectedPlace, placeDetails,
                    loading, error, currentMood, currentMoodMapping, filters,
                    sortBy, serviceRef, searchAbortRef, userLocation,
                    googleInstance, sessions, effectPending, crashed,
                    nStarted, latestMood, nChanges, apiKey >>

\* catch (error) { loadPromise = null; ... }
clearOnFailure(stored) == 0

\* loader.load() settles: googleInstance = await loader.load(), or the catch
\* block
LoadSettled(attempt, ok) ==
    /\ attempt \in DOMAIN loadAttempts
    /\ loadAttempts[attempt] = "pending"
    /\ IF ok
       THEN /\ googleInstance' = TRUE
            /\ loadAttempts' = [ loadAttempts EXCEPT ![attempt] = "fulfilled" ]
            /\ UNCHANGED loadPromise
       ELSE /\ loadPromise' = clearOnFailure(loadPromise)
            /\ loadAttempts' = [ loadAttempts EXCEPT ![attempt] = "rejected" ]
            /\ UNCHANGED googleInstance
    /\ last' = [ Step("loadSettled") EXCEPT
                    !.id = attempt,
                    !.outcome = IF ok THEN "completed" ELSE "failed" ]
    /\ UNCHANGED << places, filteredPlaces, selectedPlace, placeDetails,
                    loading, error, currentMood, currentMoodMapping, filters,
                    sortBy, serviceRef, searchAbortRef, userLocation,
                    sessions, effectPending, crashed, nStarted, latestMood,
                    nChanges, apiKey, loaderInstance, loaderLoads,
                    loadCalls >>

(***************************************************************************)
(* Specifications.                                                         *)
(***************************************************************************)
Init ==
    HookInit /\ AggInit /\ FnInit /\ SelInit /\ HistInit /\ LoaderInit("key")

Next ==
    \/ GeolocationResolved /\ UNCHANGED << aggVars, fnVars, selVars, histVars, loaderVars >>
    \/ GoogleMapsLoaded /\ UNCHANGED << aggVars, fnVars, selVars, histVars, loaderVars >>
    \/ \E mood \in MoodInputs, locArg \in LocationArgs :
           SearchByMood(mood, locArg) /\ UNCHANGED << aggVars, fnVars, selVars, histVars, loaderVars >>
    \/ \E type \in TypeInputs, locArg \in LocationArgs :
           SearchByType(type, locArg) /\ UNCHANGED << aggVars, fnVars, selVars, histVars, loaderVars >>
    \/ \E s \in DOMAIN sessions, sc \in Scenarios :
           MoodResponse(s, sc) /\ UNCHANGED << aggVars, fnVars, selVars, histVars, loaderVars >>
    \/ \E s \in DOMAIN sessions, sc \in Scenarios :
           TypeResponse(s, sc) /\ UNCHANGED << aggVars, fnVars, selVars, histVars, loaderVars >>
    \/ \E newFilters \in FilterInputs : UpdateFilters(newFilters) /\ UNCHANGED << aggVars, fnVars, selVars, histVars, loaderVars >>
    \/ ResetFilters /\ UNCHANGED << aggVars, fnVars, selVars, histVars, loaderVars >>
    \/ \E newSortBy \in SortInputs : UpdateSort(newSortBy) /\ UNCHANGED << aggVars, fnVars, selVars, histVars, loaderVars >>
    \/ ClearResults /\ UNCHANGED << aggVars, fnVars, selVars, histVars, loaderVars >>
    \/ RefilterEffect /\ UNCHANGED << aggVars, fnVars, selVars, histVars, loaderVars >>

Spec == Init /\ [][Next]_vars

\* the session controller with a provider that answers every request (the
\* callback runs between two renders, however often the user acts) and
\* React running the effect of a committed render; a mood search fails or
\* finds nothing, a type search fails or finds two places
\* a mood no table entry matches: the fallback profile, three requests
LiveMoods == { <<"x","q">> }
LiveMoodScenarios == {"down", "zero"}
LiveTypeScenarios == {"down", "up"}
MoodAnswered ==
    \E s \in DOMAIN sessions, sc \in LiveMoodScenarios :
        MoodResponse(s, sc) /\ UNCHANGED << aggVars, fnVars, selVars, histVars, loaderVars >>
TypeAnswered ==
    \E s \in DOMAIN sessions, sc \in LiveTypeScenarios :
        TypeResponse(s, sc) /\ UNCHANGED << aggVars, fnVars, selVars, histVars, loaderVars >>
EffectRun == RefilterEffect /\ UNCHANGED << aggVars, fnVars, selVars, histVars, loaderVars >>

LiveNext ==
    \/ GoogleMapsLoaded /\ UNCHANGED << aggVars, fnVars, selVars, histVars, loaderVars >>
    \/ \E mood \in LiveMoods : SearchByMood(mood, Here) /\ UNCHANGED << aggVars, fnVars, selVars, histVars, loaderVars >>
    \/ \E type \in TypeInputs : SearchByType(type, Here) /\ UNCHANGED << aggVars, fnVars, selVars, histVars, loaderVars >>
    \/ MoodAnswered
    \/ TypeAnswered
    \/ \E newFilters \in FilterInputs : UpdateFilters(newFilters) /\ UNCHANGED << aggVars, fnVars, selVars, histVars, loaderVars >>
    \/ ClearResults /\ UNCHANGED << aggVars, fnVars, selVars, histVars, loaderVars >>
    \/ EffectRun

LiveSpec ==
    /\ Init
    /\ [][LiveNext]_vars
    /\ SF_vars(MoodAnswered)
    /\ SF_vars(TypeAnswered)
    /\ WF_vars(EffectRun)

\* the session controller with clearResults recorded: searches with a
\* location, answered with places or with a failure
ClearScenarios == {"up", "down"}
ClearResultsRecorded ==
    /\ ClearResults
    /\ clearedAt' = {nStarted}
    /\ UNCHANGED << aggVars, fnVars, selVars, loaderVars >>

ClearNext ==
    \/ GoogleMapsLoaded /\ UNCHANGED << aggVars, fnVars, selVars, histVars, loaderVars >>
    \/ \E mood \in {coffee} :
           SearchByMood(mood, Here) /\ UNCHANGED << aggVars, fnVars, selVars, histVars, loaderVars >>
    \/ \E type \in TypeInputs :
           SearchByType(type, Here) /\ UNCHANGED << aggVars, fnVars, selVars, histVars, loaderVars >>
    \/ \E s \in DOMAIN sessions, sc \in ClearScenarios :
           MoodResponse(s, sc) /\ UNCHANGED << aggVars, fnVars, selVars, histVars, loaderVars >>
    \/ \E s \in DOMAIN sessions, sc \in ClearScenarios :
           TypeResponse(s, sc) /\ UNCHANGED << aggVars, fnVars, selVars, histVars, loaderVars >>
    \/ ClearResultsRecorded
    \/ RefilterEffect /\ UNCHANGED << aggVars, fnVars, selVars, histVars, loaderVars >>

ClearSpec == Init /\ [][ClearNext]_vars

\* the selection handlers next to mood searches that find nothing
SelectScenarios == {"zero"}
SelectNext ==
    \/ GoogleMapsLoaded /\ UNCHANGED << aggVars, fnVars, selVars, histVars, loaderVars >>
    \/ \E place \in SelectInputs :
           SelectPlace(place) /\ UNCHANGED << aggVars, fnVars, histVars, loaderVars >>
    \/ \E call \in DOMAIN detailRequests, ok \in BOOLEAN :
           DetailsResponse(call, ok) /\ UNCHANGED << aggVars, fnVars, histVars, loaderVars >>
    \/ \E placeId \in detailsCache :
           CacheExpires(placeId) /\ UNCHANGED << aggVars, fnVars, histVars, loaderVars >>
    \/ ClearSelection /\ UNCHANGED << aggVars, fnVars, histVars, loaderVars >>
    \/ \E mood \in {coffee} :
           SearchByMood(mood, Here) /\ UNCHANGED << aggVars, fnVars, selVars, histVars, loaderVars >>
    \/ \E s \in DOMAIN sessions, sc \in SelectScenarios :
           MoodResponse(s, sc) /\ UNCHANGED << aggVars, fnVars, selVars, histVars, loaderVars >>
    \/ RefilterEffect /\ UNCHANGED << aggVars, fnVars, selVars, histVars, loaderVars >>

SelectSpec == Init /\ [][SelectNext]_vars

\* the loader of a build with any of the keys
LoaderNext ==
    \/ LoadGoogleMapsApi /\ UNCHANGED << aggVars, fnVars, selVars, histVars >>
    \/ \E attempt \in DOMAIN loadAttempts, ok \in BOOLEAN :
           LoadSettled(attempt, ok) /\ UNCHANGED << aggVars, fnVars, selVars, histVars >>

LoaderStart ==
    /\ HookInit /\ AggInit /\ FnInit /\ SelInit /\ HistInit
    /\ \E key \in ApiKeys : LoaderInit(key)

LoaderSpec == LoaderStart /\ [][LoaderNext]_vars

AggNext ==
    \/ \E nTypes \in 0..MaxTypes, nKeywords \in 0..MaxKeywords :
           AggStart(nTypes, nKeywords)
    \/ \E k \in 1..Len(aggRequests), answer \in Answers : AggCallback(k, answer)

AggSpec == Init /\ [][AggNext]_vars

\* the session controller in a busy area: a search finds more than
\* MAX_RESULTS places
CapScenarios == {"many", "zero"}

CapNext ==
    \/ GoogleMapsLoaded /\ UNCHANGED << aggVars, fnVars, selVars, histVars, loaderVars >>
    \/ \E mood \in {coffee} : SearchByMood(mood, Here) /\ UNCHANGED << aggVars, fnVars, selVars, histVars, loaderVars >>
    \/ \E type \in TypeInputs : SearchByType(type, Here) /\ UNCHANGED << aggVars, fnVars, selVars, histVars, loaderVars >>
    \/ \E s \in DOMAIN sessions, sc \in CapScenarios :
           MoodResponse(s, sc) /\ UNCHANGED << aggVars, fnVars, selVars, histVars, loaderVars >>
    \/ \E s \in DOMAIN sessions, sc \in CapScenarios :
           TypeResponse(s, sc) /\ UNCHANGED << aggVars, fnVars, selVars, histVars, loaderVars >>
    \/ \E newSortBy \in SortInputs : UpdateSort(newSortBy) /\ UNCHANGED << aggVars, fnVars, selVars, histVars, loaderVars >>
    \/ ClearResults /\ UNCHANGED << aggVars, fnVars, selVars, histVars, loaderVars >>
    \/ RefilterEffect /\ UNCHANGED << aggVars, fnVars, selVars, histVars, loaderVars >>

CapSpec == Init /\ [][CapNext]_vars

\* the session controller with searches for two moods, whose profiles give
\* the same place different relevance scores
atm == <<"a","t","m">>
RankMoods == { coffee, atm }

RankNext ==
    \/ GoogleMapsLoaded /\ UNCHANGED << aggVars, fnVars, selVars, histVars, loaderVars >>
    \/ \E mood \in RankMoods : SearchByMood(mood, Here) /\ UNCHANGED << aggVars, fnVars, selVars, histVars, loaderVars >>
    \/ \E type \in TypeInputs : SearchByType(type, Here) /\ UNCHANGED << aggVars, fnVars, selVars, histVars, loaderVars >>
    \/ \E s \in DOMAIN sessions : MoodResponse(s, "up") /\ UNCHANGED << aggVars, fnVars, selVars, histVars, loaderVars >>
    \/ \E s \in DOMAIN sessions : TypeResponse(s, "up") /\ UNCHANGED << aggVars, fnVars, selVars, histVars, loaderVars >>
    \/ \E newSortBy \in SortInputs : UpdateSort(newSortBy) /\ UNCHANGED << aggVars, fnVars, selVars, histVars, loaderVars >>
    \/ RefilterEffect /\ UNCHANGED << aggVars, fnVars, selVars, histVars, loaderVars >>

RankSpec == Init /\ [][RankNext]_vars

ScoreNext ==
    /\ fnCall = NoCall
    /\ \E place \in ScorePlaces, moodMapping \in ScoreProfiles :
          ScoreCall(place, moodMapping)

ScoreSpec == Init /\ [][ScoreNext]_vars

MoodNext ==
    /\ fnCall = NoCall
    /\ \/ \E mood \in MoodCallInputs : MoodCall(mood)
       \/ \E input \in SuggestInputs, engine \in SortEngines :
              SuggestCall(input, engine)

MoodSpec == Init /\ [][MoodNext]_vars

FilterNext ==
    /\ fnCall = NoCall
    /\ \E list \in BenchLists, criteria \in BenchFilters,
          mode \in SORT_OPTIONS, moodMapping \in BenchMappings :
          FilterCall(list, criteria, mode, moodMapping)

FilterSpec == Init /\ [][FilterNext]_vars

FormatNext ==
    /\ fnCall = NoCall
    /\ \E distanceInMeters \in 0..MaxMeters : FormatCall(distanceInMeters)

FormatSpec == Init /\ [][FormatNext]_vars

(***************************************************************************)
(* Properties of the session controller (usePlaces), under Spec.           *)
(***************************************************************************)
\* the answer of a search was published as the result list
publishing == last.outcome = "completed" /\ last.id # 0
respondedMood == last.op = "moodResponse"
responded == last.op \in {"moodResponse", "typeResponse"}
placeIds(list) == [ i \in 1..Len(list) |-> list[i].place_id ]
noMoodPending == \A s \in DOMAIN sessions : sessions[s].kind # "mood"

\* C1: with any number of overlapping searchByMood calls and any arrival
\* order of their answers, only the searchByMood started last assigns places
\* and filteredPlaces when its answer arrives; the answer of a superseded
\* one never does.
C1_OnlyLatestMoodSearchPublishes ==
    respondedMood =>
        /\ (last.outcome # "cancelled") = (last.id = latestMood)
        /\ last.aborted = (last.id # latestMood)

\* C1 happens: three searches overlapped, the answer of the first arrives
\* last and is dropped, the list shown is the one the third search found.
C1_Witness ==
    /\ respondedMood
    /\ last.id = 1
    /\ last.outcome = "cancelled"
    /\ latestMood = 3
    /\ DOMAIN sessions = {}
    /\ places # << >>
    /\ \A i \in 1..Len(places) : places[i].via \in 1..8
    /\ placeIds(places) =
         placeIds(searchMultipleTypes(providerAnswers("up", 3, 8)).value)

\* C2 (as claimed): whichever entry point started it, a search whose answer
\* assigns the published state is the search started last.
C2_OnlyLatestSearchPublishes ==
    (responded /\ publishing) => last.id = nStarted

\* C3: the answer of a superseded searchByMood, good or bad, changes none of
\* error, places, filteredPlaces and loading.
C3_SupersededSearchIsSilent ==
    [][ \A s \in DOMAIN sessions :
          (sessions[s].kind = "mood" /\ sessions[s].abort
           /\ s \notin DOMAIN sessions')
          => UNCHANGED << error, places, filteredPlaces, loading >> ]_vars

\* C3 happens: the provider failed a superseded search while the newer one
\* is still loading and an older list is shown.
C3_Witness ==
    /\ respondedMood
    /\ last.aborted
    /\ last.scenario = "down"
    /\ loading
    /\ DOMAIN sessions # {}

\* C4: searchByMood and searchByType called without a location set error and
\* return: no search starts, no request is issued, no mood is resolved.
C4_NoLocationShortCircuits ==
    [][ (last'.op \in {"searchByMood", "searchByType"} /\ last'.location = Null)
        => /\ error' = LocationRequired
           /\ last'.issued = 0
           /\ ~last'.resolvedMood
           /\ UNCHANGED << sessions, nStarted, searchAbortRef, serviceRef,
                           currentMood, currentMoodMapping, loading >> ]_vars

\* C4 happens: searchByMood ran with no argument while userLocation is null
\* and another search is in flight.
C4_Witness ==
    /\ last.op = "searchByMood"
    /\ last.location = Null
    /\ userLocation = Null
    /\ error = LocationRequired
    /\ DOMAIN sessions # {}

\* C5 (as claimed): every transition to Failed leaves a non-null error and
\* empty places and filteredPlaces.
C5_FailedPublishesEmptyList ==
    last.outcome = "failed" =>
        error # Null /\ places = << >> /\ filteredPlaces = << >>

\* C5 (amended): every transition to Failed leaves a non-null error; when the
\* service cannot be initialised or the search rejects, places and
\* filteredPlaces are empty; the no-location short-circuit leaves them as
\* they were.
C5_FailedAmended ==
    [][ last'.outcome = "failed"
        => /\ error' # Null
           /\ IF last'.cause = "no-location"
              THEN UNCHANGED << places, filteredPlaces >>
              ELSE places' = << >> /\ filteredPlaces' = << >> ]_vars

\* C5 happens: a search by type failed on a rejected request: error is set
\* and the lists are empty.
C5_Witness ==
    /\ last.outcome = "failed"
    /\ last.cause = "rejected"
    /\ last.op = "typeResponse"
    /\ places = << >>
    /\ error = SearchFailed

\* C6 (as claimed): a search that completes and publishes its list leaves
\* error null.
C6_CompletedClearsError ==
    last.outcome = "completed" => error = Null

\* C7 (as claimed): right after searchByMood started with a location, places
\* and filteredPlaces are empty.
C7_StartClearsResults ==
    (last.op = "searchByMood" /\ last.outcome = "searching")
        => places = << >> /\ filteredPlaces = << >>

\* C9 (as claimed): when every sub-query of a search fails, the search ends
\* Failed with error set.
C9_OutageSurfacesError ==
    (respondedMood /\ last.scenario = "down" /\ ~last.aborted)
        => last.outcome = "failed" /\ error # Null

(***************************************************************************)
(* The result cap, under CapSpec.                                          *)
(***************************************************************************)
\* C26: between renders, with the re-filter effect run, filteredPlaces is
\* filterAndSortPlaces(places, filters, sortBy, currentMoodMapping) for the
\* current filters and sort mode, and empty when places is empty.
C26_ShownListIsCurrent ==
    Idle =>
        filteredPlaces =
            IF Len(places) > 0
            THEN filterAndSortPlaces(places, filters, sortBy,
                                     currentMoodMapping)
            ELSE << >>

\* C26 happens: the filters were changed while a search was in flight, which
\* holds the filters it started with, and the list on show is the published
\* list under the new filters, not under the old ones.
C26_Witness ==
    /\ Idle
    /\ last.op = "effect"
    /\ Len(places) > 0
    /\ \E s \in DOMAIN sessions :
          /\ sessions[s].filters # filters
          /\ filteredPlaces #
                filterAndSortPlaces(places, sessions[s].filters, sortBy,
                                    currentMoodMapping)

\* C27: when the provider answers every request, loading, once true, becomes
\* false again, whatever searches, filter changes and clearResults calls
\* came in between; a superseded search that skips setLoading(false) does
\* not leave it true.
C27_LoadingEnds == loading ~> ~loading

\* C27 happens: the answer of a superseded search arrived last and skipped
\* setLoading(false); no search is in flight and loading is false.
C27_Witness ==
    /\ last.op = "moodResponse"
    /\ last.aborted
    /\ DOMAIN sessions = {}
    /\ ~loading

\* C24: updateFilters, resetFilters and updateSort issue no provider request
\* and leave places, filteredPlaces, currentMood, currentMoodMapping, error,
\* loading and the searches in flight as they are, changing filters or
\* sortBy only; the re-filter effect that follows changes filteredPlaces
\* only.
C24_FilterChangesAreLocal ==
    [][ /\ last'.op \in {"updateFilters", "resetFilters", "updateSort"}
            => /\ last'.issued = 0
               /\ UNCHANGED << places, filteredPlaces, currentMood,
                               currentMoodMapping, error, loading, sessions,
                               searchAbortRef, serviceRef, nStarted,
                               selectedPlace, placeDetails >>
               /\ last'.op = "updateSort" => UNCHANGED filters
               /\ last'.op # "updateSort" => UNCHANGED sortBy
        /\ last'.op = "effect"
            => /\ last'.issued = 0
               /\ UNCHANGED << places, currentMood, currentMoodMapping, error,
                               loading, sessions, searchAbortRef, serviceRef,
                               nStarted, selectedPlace, placeDetails, filters,
                               sortBy >>
      ]_vars

\* C24 happens: with a search in flight over a published list, a filter
\* change was followed by the effect, which took places off the list on show.
C24_Witness ==
    /\ last.op = "effect"
    /\ filters # DEFAULT_FILTERS
    /\ loading
    /\ DOMAIN sessions # {}
    /\ Len(places) > 0
    /\ Len(filteredPlaces) < Len(places)

\* the requests searchByMood('coffee') issues
coffeeRequests ==
    Len(getMoodMapping(coffee).types) + Len(getMoodMapping(coffee).keywords)

\* C11: places never holds more than MAX_RESULTS (20) entries, and a mood
\* search that completes in a busy area publishes the first 20 places of the
\* merged list in request order (search s finds places s + 1, s + 2, ... in
\* that order), each with its relevance score, whatever their scores are.
C11_FirstTwentyInRequestOrder ==
    /\ Len(places) <= MAX_RESULTS
    /\ (last.op = "moodResponse" /\ last.outcome = "completed"
        /\ last.scenario = "many")
       => /\ Len(places) = Min(MAX_RESULTS,
                               (ManyWidth - 1) * coffeeRequests + 1)
          /\ \A i \in 1..Len(places) :
                 /\ places[i].place_id = last.id + i
                 /\ places[i].relevanceScore =
                      calculateRelevanceScore(withDistance(last.id + i, 1),
                                              getMoodMapping(coffee))

\* C11 happens: a mood search found more than 20 places and 20 are shown; the
\* first place left out scores higher than a place that is shown.
C11_Witness ==
    /\ last.op = "moodResponse"
    /\ last.outcome = "completed"
    /\ last.scenario = "many"
    /\ (ManyWidth - 1) * coffeeRequests + 1 > MAX_RESULTS
    /\ Len(places) = MAX_RESULTS
    /\ \E i \in 1..Len(places) :
          places[i].relevanceScore
            < calculateRelevanceScore(
                  withDistance(last.id + MAX_RESULTS + 1, 1),
                  getMoodMapping(coffee))

(***************************************************************************)
(* Properties of calculateRelevanceScore, under ScoreSpec.                 *)
(***************************************************************************)
scored == fnCall.fn = "calculateRelevanceScore"
\* the place has none of its optional fields but, possibly, types / distance
bareBut(field) ==
    /\ field = "types" \/ fnCall.place.types = {}
    /\ fnCall.place.price_level = Absent
    /\ fnCall.place.rating = Absent
    /\ fnCall.place.user_ratings_total = Absent
    /\ fnCall.place.opening_hours = "absent"
    /\ field = "distance" \/ fnCall.place.distance = Absent
matching == fnCall.place.types \cap Range(fnCall.moodMapping.types)
primary == fnCall.moodMapping.types[1]

\* C12: calculateRelevanceScore returns an integer between 0 and 100, and 40
\* for a place without any optional field.
C12_ScoreInRange ==
    scored =>
        /\ fnRet.value \in 0..100
        /\ bareBut("none") => fnRet.value = 40

\* C12 happens: a score was capped at 100, and a place without optional
\* fields was scored 40.
C12_Witness ==
    /\ scored
    /\ fnRet.value = 100
    /\ Cardinality(fnCall.place.types) = 5
    /\ matching = fnCall.place.types
    /\ fnCall.place.rating = 47
    /\ fnCall.place.user_ratings_total = 500

\* C13 (as claimed): for a place with no other optional field, the score is
\* 40 without a matching type, and 40 + 20 + 10 for each matching type beyond
\* the primary one when the primary type matches.
C13_PrimaryTwentySecondaryTen ==
    (scored /\ bareBut("types")) =>
        /\ matching = {} => fnRet.value = 40
        /\ primary \in matching =>
               fnRet.value = Min(100, 40 + 20 + 10 * (Cardinality(matching) - 1))

\* C14 (as claimed): for a place with no other optional field and a known
\* distance, the score is 35 beyond 3000 m, 45 below 500 m (0 included) and
\* 40 from 500 m to 3000 m.
C14_DistanceAppliedWhenKnown ==
    (scored /\ bareBut("distance") /\ fnCall.place.distance # Absent) =>
        fnRet.value = IF fnCall.place.distance > 3000 THEN 35
                      ELSE IF fnCall.place.distance < 500 THEN 45
                      ELSE 40

(***************************************************************************)
(* Properties of getMoodMapping, under MoodSpec.                           *)
(***************************************************************************)
resolvedMood == fnCall.fn = "getMoodMapping"
\* the input in lower case, trimmed, hyphens turned into spaces
normalizedInput == replaceHyphens(trim(toLowerCase(fnCall.mood)))
tableKey(i) == replaceHyphens(moodMappings[i].key)
containsEitherWay(a, b) == includes(a, b) \/ includes(b, a)
exactKeys == { i \in 1..NumMoods : tableKey(i) = normalizedInput }
partialKeys ==
    { i \in 1..NumMoods : containsEitherWay(tableKey(i), normalizedInput) }
keywordProfiles ==
    { i \in 1..NumMoods :
        \E k \in 1..Len(moodMappings[i].mapping.keywords) :
            containsEitherWay(moodMappings[i].mapping.keywords[k],
                              normalizedInput) }
firstOf(S) == CHOOSE i \in S : \A j \in S : i <= j

\* C15: a key of the table, as it is, in upper case, with spaces around it
\* or with hyphens for its spaces, resolves to the entry stored under it.
C15_KeyResolvesToItsEntry ==
    resolvedMood =>
        \A i \in 1..NumMoods :
            fnCall.mood \in KeyVariants(i)
            => fnRet.value = moodMappings[i].mapping

\* C15 happens: LUNCH resolved to the entry of lunch, although the key brunch,
\* which contains it, comes first in the table.
C15_Witness ==
    /\ resolvedMood
    /\ fnCall.mood = <<"L","U","N","C","H">>
    /\ fnRet.value.description = moodMappings[10].mapping.description
    /\ moodMappings[10].key = <<"l","u","n","c","h">>
    /\ moodMappings[9].key = <<"b","r","u","n","c","h">>

\* C16 (as claimed): the result is the entry of the exact key; else the entry
\* of the first key that contains the input or is contained in it; else the
\* first entry with such a keyword; else the fallback profile.
C16_StrictPrecedence ==
    resolvedMood =>
        fnRet.value =
            IF exactKeys # {} THEN moodMappings[firstOf(exactKeys)].mapping
            ELSE IF partialKeys # {}
                 THEN moodMappings[firstOf(partialKeys)].mapping
            ELSE IF keywordProfiles # {}
                 THEN moodMappings[firstOf(keywordProfiles)].mapping
            ELSE [ types |-> <<"restaurant", "cafe">>,
                   keywords |-> <<normalizedInput>>,
                   description |-> "General search",
                   preferredPrice |-> {1, 2, 3},
                   prioritizeRating |-> TRUE ]

\* C17 (as claimed): whatever the input, the value returned has a types list
\* with at least one entry.
C17_AlwaysAProfile ==
    resolvedMood =>
        /\ "types" \in DOMAIN fnRet.value
        /\ Len(fnRet.value.types) >= 1

(***************************************************************************)
(* Properties of getMoodSuggestions, under MoodSpec.                       *)
(***************************************************************************)
suggested == fnCall.fn = "getMoodSuggestions"
typed == trim(toLowerCase(fnCall.input))
nameMatches == { i \in 1..NumMoods : includes(moodMappings[i].key, typed) }
keywordMatches ==
    { i \in 1..NumMoods \ nameMatches :
        \E k \in 1..Len(moodMappings[i].mapping.keywords) :
            includes(moodMappings[i].mapping.keywords[k], typed) }
suggestedKeys == { fnRet.value[n].value : n \in 1..Len(fnRet.value) }
keysOf(S) == { moodMappings[i].key : i \in S }

\* C18: for empty input the six popular moods in their fixed order; otherwise
\* at most 6 suggestions, each a match of the input and none twice, every
\* name match before every keyword match, and a keyword match among them
\* only if every name match is among them.
C18_SuggestionsNamesFirst ==
    suggested =>
        IF typed = << >>
        THEN [ n \in 1..Len(fnRet.value) |-> fnRet.value[n].value ]
               = << <<"w","o","r","k">>, <<"d","a","t","e">>,
                    <<"q","u","i","c","k"," ","b","i","t","e">>,
                    <<"c","o","f","f","e","e">>, <<"c","h","i","l","l">>,
                    <<"f","a","m","i","l","y">> >>
        ELSE /\ Len(fnRet.value) = Min(6, Cardinality(nameMatches)
                                            + Cardinality(keywordMatches))
             /\ Cardinality(suggestedKeys) = Len(fnRet.value)
             /\ \A n \in 1..Len(fnRet.value) :
                    IF fnRet.value[n].matchType = "name"
                    THEN fnRet.value[n].value \in keysOf(nameMatches)
                    ELSE fnRet.value[n].value \in keysOf(keywordMatches)
             /\ \A m, n \in 1..Len(fnRet.value) :
                    (fnRet.value[m].matchType = "keyword"
                     /\ fnRet.value[n].matchType = "name") => n < m
             /\ (suggestedKeys \cap keysOf(keywordMatches) # {})
                    => keysOf(nameMatches) \subseteq suggestedKeys

\* C18 happens: the cap cut keyword matches off, and a name match that comes
\* after a keyword match in table order was put in front of it.
C18_Witness ==
    /\ suggested
    /\ Len(fnRet.value) = 6
    /\ Cardinality(nameMatches) + Cardinality(keywordMatches) > 6
    /\ keywordMatches # {}
    /\ \E i \in nameMatches, j \in keywordMatches :
          /\ j < i
          /\ moodMappings[i].key \in suggestedKeys
          /\ moodMappings[j].key \in suggestedKeys

(***************************************************************************)
(* Properties of filterAndSortPlaces, under FilterSpec.                    *)
(***************************************************************************)
filterSorted == fnCall.fn = "filterAndSortPlaces"
occurrences(list, place) ==
    Cardinality({ n \in 1..Len(list) : list[n] = place })

\* the filter predicates: a criterion excludes a place only on data the
\* place has, and open-now only a place known to be closed
satisfies(place, criteria) ==
    /\ place.rating # Absent => place.rating >= criteria.minRating
    /\ place.distance # Absent => place.distance <= criteria.maxDistance
    /\ criteria.openNow => place.opening_hours # "closed"
    /\ (criteria.priceLevel.kind = "set" /\ place.price_level # Absent)
          => place.price_level \in criteria.priceLevel.set
    /\ (criteria.priceLevel.kind = "max" /\ place.price_level # Absent)
          => place.price_level <= criteria.priceLevel.max
    /\ criteria.types # {} => criteria.types \cap place.types # {}
    /\ criteria.searchQuery # << >>
          => \/ includes(toLowerCase(place.name),
                         toLowerCase(criteria.searchQuery))
             \/ includes(toLowerCase(place.vicinity),
                         toLowerCase(criteria.searchQuery))

\* C19: the output of filterAndSortPlaces is never longer than the input, and
\* a place that satisfies every filter predicate is in it as often as in the
\* input, any other place not at all.
C19_ReorderedSubList ==
    filterSorted =>
        /\ Len(fnRet.value) <= Len(fnCall.places)
        /\ \A place \in BenchPlaces :
               occurrences(fnRet.value, place) =
                   IF satisfies(place, fnCall.filters)
                   THEN occurrences(fnCall.places, place)
                   ELSE 0

\* the only criteria in force are ones the place has no data for
onlyMissingData(place, criteria) ==
    /\ criteria.minRating > 0 => place.rating = Absent
    /\ criteria.maxDistance < SEARCH_RADIUS_FAR => place.distance = Absent
    /\ criteria.priceLevel.kind # "null" => place.price_level = Absent
    /\ criteria.openNow => place.opening_hours \in {"absent", "unknown"}
    /\ criteria.types = {}
    /\ criteria.searchQuery = << >>

\* C20: a place is kept whenever every criterion in force asks for data the
\* place does not have: no rating, no distance, no price level, no
\* opening_hours or opening_hours without open_now.
C20_PermissiveTowardMissingData ==
    filterSorted =>
        \A n \in 1..Len(fnCall.places) :
            onlyMissingData(fnCall.places[n], fnCall.filters)
                => fnCall.places[n] \in Range(fnRet.value)

\* the keys of the sort modes
distanceKey(place) == IF place.distance = Absent THEN 0 ELSE place.distance
ratingKey(place) == IF place.rating = Absent THEN 0 ELSE place.rating
countKey(place) ==
    IF place.user_ratings_total = Absent THEN 0 ELSE place.user_ratings_total
priced(place) == place.price_level # Absent

\* place a may stand before place b in the output of the sort mode
inOrder(a, b, mode) ==
    CASE mode = NEAREST -> distanceKey(a) <= distanceKey(b)
      [] mode = HIGHEST_RATED ->
            \/ ratingKey(a) > ratingKey(b)
            \/ ratingKey(a) = ratingKey(b) /\ countKey(a) >= countKey(b)
      [] mode = PRICE_LOW ->
            \/ ~priced(b)
            \/ priced(a) /\ a.price_level <= b.price_level
      [] mode = PRICE_HIGH ->
            \/ ~priced(b)
            \/ priced(a) /\ a.price_level >= b.price_level
      [] OTHER -> TRUE

\* C21: in the modes nearest, highest rated, price low and price high the
\* output is ordered by the mode's key: ascending distance with a missing
\* distance as 0, descending rating then descending rating count, ascending
\* or descending price level with the places without price level last.
C21_OrderedByModeKey ==
    filterSorted =>
        \A m, n \in 1..Len(fnRet.value) :
            m < n => inOrder(fnRet.value[m], fnRet.value[n], fnCall.sortBy)

\* C21 happens: three places came in another order than they leave, the one
\* without price level first in the input and last in both price modes, and
\* two places of equal rating were put in the order of their rating counts.
C21_Witness ==
    /\ filterSorted
    /\ Len(fnRet.value) = 3
    /\ fnRet.value # fnCall.places
    /\ \/ /\ fnCall.sortBy \in {PRICE_LOW, PRICE_HIGH}
          /\ ~priced(fnCall.places[1])
          /\ priced(fnRet.value[1]) /\ priced(fnRet.value[2])
          /\ fnRet.value[1].price_level # fnRet.value[2].price_level
          /\ ~priced(fnRet.value[3])
       \/ /\ fnCall.sortBy = HIGHEST_RATED
          /\ ratingKey(fnRet.value[1]) = ratingKey(fnRet.value[2])
          /\ countKey(fnRet.value[1]) > countKey(fnRet.value[2])
          /\ fnCall.places[1] = fnRet.value[2]

\* C23: filterAndSortPlaces applied to the same list, criteria and sort mode
\* again gives the same sequence, and applied to its own output gives that
\* output again, places with equal sort keys in the same order.
C23_Idempotent ==
    filterSorted =>
        /\ filterAndSortPlaces(fnCall.places, fnCall.filters, fnCall.sortBy,
                               fnCall.moodMapping) = fnRet.value
        /\ filterAndSortPlaces(fnRet.value, fnCall.filters, fnCall.sortBy,
                               fnCall.moodMapping) = fnRet.value

\* C23 happens: the call dropped a place and moved another, and its output
\* has two different places with equal sort keys next to each other.
C23_Witness ==
    /\ filterSorted
    /\ Len(fnRet.value) = 2
    /\ Len(fnCall.places) = 3
    /\ fnRet.value[1] # fnRet.value[2]
    /\ fnRet.value[1] # fnCall.places[1]
    /\ compare(fnRet.value[1], fnRet.value[2], fnCall.sortBy,
               fnCall.moodMapping) = 0

(***************************************************************************)
(* Properties of formatDistance, under FormatSpec.                         *)
(***************************************************************************)
formatted == fnCall.fn = "formatDistance"
meters == fnCall.distanceInMeters

\* whole times step is as near to n as a multiple of step can be
nearest(whole, step, n) ==
    /\ 2 * (whole * step - n) <= step
    /\ 2 * (n - whole * step) <= step

\* C25: a whole number of metres m is shown in metres as it is below 100, in
\* metres to the nearest 10 below 1000, in kilometres with one decimal below
\* 10000 and in whole kilometres from 10000 on; 50, 950, 1500 and 12000
\* give "50 m", "950 m", "1.5 km" and "12 km".
C25_FormatBreakpoints ==
    formatted =>
        /\ meters < 100 => fnRet.value = ToString(meters) \o " m"
        /\ (100 <= meters /\ meters < 1000) =>
              \E tens \in 10..100 :
                  /\ nearest(tens, 10, meters)
                  /\ fnRet.value = ToString(10 * tens) \o " m"
        /\ (1000 <= meters /\ meters < 10000) =>
              \E tenths \in 10..100 :
                  /\ nearest(tenths, 100, meters)
                  /\ fnRet.value = ToString(tenths \div 10) \o "."
                                     \o ToString(tenths % 10) \o " km"
        /\ meters >= 10000 =>
              \E km \in 10..(MaxMeters \div 1000 + 1) :
                  /\ nearest(km, 1000, meters)
                  /\ fnRet.value = ToString(km) \o " km"
        /\ meters = 50 => fnRet.value = "50 m"
        /\ meters = 950 => fnRet.value = "950 m"
        /\ meters = 1500 => fnRet.value = "1.5 km"
        /\ meters = 12000 => fnRet.value = "12 km"

\* C25 happens: a distance half-way between two tenths of a kilometre whose
\* double lies below it was shown with the lower tenth.
C25_Witness ==
    /\ formatted
    /\ meters = 1150
    /\ fnRet.value = "1.1 km"

(***************************************************************************)
(* Properties of the best-match order of the published list, under         *)
(* RankSpec.  Scores are in thousandths, as in calculatePlaceScore.        *)
(***************************************************************************)
\* the list on show was sorted in best-match mode by the re-filter effect
bestMatchShown ==
    /\ Idle
    /\ sortBy \notin {NEAREST, HIGHEST_RATED, PRICE_LOW, PRICE_HIGH}
    /\ Len(places) > 0

\* 0.3 * relevanceScore (if a profile is supplied) + 25 * rating / 5
\* + 15 * min(ratingCount / 500, 1) + max(0, 20 - distance / 500) + 10 if open
compositeScore(place) ==
    (IF currentMoodMapping # NullMapping
     THEN 300 * place.relevanceScore ELSE 0)
    + (IF place.rating # Absent THEN 500 * place.rating ELSE 0)
    + (IF place.user_ratings_total # Absent
       THEN 15 * Min(2 * place.user_ratings_total, 1000) ELSE 0)
    + (IF place.distance # Absent
       THEN Max(0, 20000 - 2 * place.distance) ELSE 0)
    + (IF place.opening_hours = "open" THEN 10000 ELSE 0)

\* C22: the list sorted in best-match mode is in non-increasing order of the
\* composite score, whose relevance term, when a profile is supplied, is the
\* relevanceScore stored on the place.
C22_BestMatchByStoredRelevance ==
    bestMatchShown =>
        /\ currentMoodMapping # NullMapping =>
              \A n \in 1..Len(filteredPlaces) :
                  filteredPlaces[n].relevanceScore =
                      calculateRelevanceScore(filteredPlaces[n],
                                              currentMoodMapping)
        /\ \A m, n \in 1..Len(filteredPlaces) :
              m < n => compositeScore(filteredPlaces[m])
                         >= compositeScore(filteredPlaces[n])

(***************************************************************************)
(* Properties of searchMultipleTypes, under AggSpec.                       *)
(***************************************************************************)
succeeded(k) == aggRequests[k].answer.status \in {OK, ZERO_RESULTS}
failed(k) == aggRequests[k].answer.status = UNKNOWN_ERROR
found(k) == Range(aggRequests[k].answer.ids)
allRequests == 1..Len(aggRequests)

\* C8: one nearbySearch per entry of types, then one textSearch per entry of
\* keywords; the promise never rejects; it resolves with exactly the places
\* the succeeded sub-queries found, each as a succeeded sub-query returned it.
C8_PartialFailureStillResolves ==
    LET nTypes == Len(aggOptions.types)
        nKeywords == Len(aggOptions.keywords)
    IN  /\ aggPc # "rejected"
        /\ aggPc # "idle" =>
             /\ Len(aggRequests) = nTypes + nKeywords
             /\ \A i \in 1..nTypes :
                    /\ aggRequests[i].api = "nearbySearch"
                    /\ aggRequests[i].arg = [ type |-> aggOptions.types[i] ]
             /\ \A j \in 1..nKeywords :
                    /\ aggRequests[nTypes + j].api = "textSearch"
                    /\ aggRequests[nTypes + j].arg =
                         [ query |-> aggOptions.keywords[j] ]
        /\ aggPc = "resolved" =>
             /\ { aggResult[i].place_id : i \in 1..Len(aggResult) }
                  = UNION { found(k) : k \in { r \in allRequests : succeeded(r) } }
             /\ \A i \in 1..Len(aggResult) :
                    /\ aggResult[i].via \in allRequests
                    /\ succeeded(aggResult[i].via)
                    /\ aggResult[i] =
                         withDistance(aggResult[i].place_id, aggResult[i].via)
                    /\ aggResult[i].place_id \in found(aggResult[i].via)

\* C8 happens: a category request failed, a keyword request answered, and the
\* aggregation resolved with what was found.
C8_Witness ==
    /\ aggPc = "resolved"
    /\ \E k \in allRequests : failed(k) /\ aggRequests[k].api = "nearbySearch"
    /\ \E k \in allRequests :
          aggRequests[k].answer.status = OK /\ aggRequests[k].api = "textSearch"
    /\ aggResult # << >>

\* C10: no place_id twice in the result, and the record kept for an id is the
\* one of the first request, in request order, that returned it.
C10_FirstRequestWins ==
    aggPc = "resolved" =>
        /\ \A i, j \in 1..Len(aggResult) :
               i # j => aggResult[i].place_id # aggResult[j].place_id
        /\ \A i \in 1..Len(aggResult) :
               \A k \in allRequests :
                   (aggRequests[k].answer.status = OK
                    /\ aggResult[i].place_id \in found(k))
                   => aggResult[i].via <= k

\* C10 happens: a category and a keyword request returned the same place, the
\* keyword answer arrived first, and the category record was kept.
C10_Witness ==
    /\ aggPc = "resolved"
    /\ \E k1, k2 \in allRequests :
          /\ k1 < k2
          /\ aggRequests[k1].api = "nearbySearch"
          /\ aggRequests[k2].api = "textSearch"
          /\ aggRequests[k1].answer.status = OK
          /\ aggRequests[k2].answer.status = OK
          /\ found(k1) \cap found(k2) # {}
          /\ aggFirst = k2
          /\ \E i \in 1..Len(aggResult) :
                aggResult[i].place_id \in found(k1) \cap found(k2)
                /\ aggResult[i].via = k1


\* C28: after clearResults, until a new search is started, places and
\* filteredPlaces stay empty and currentMood and currentMoodMapping stay
\* null: a search started before clearResults publishes nothing afterwards.
C28_ClearedStaysCleared ==
    clearedAt = {nStarted} =>
        /\ places = << >>
        /\ filteredPlaces = << >>
        /\ currentMood = NullMood
        /\ currentMoodMapping = NullMapping

\* C29: whenever placeDetails is non-null it holds the details of the
\* currently selected place (never non-null while selectedPlace is null),
\* for any interleaving of selectPlace, clearSelection, searchByMood and
\* the responses of the detail fetches.
C29_DetailsOfSelected ==
    placeDetails # NullPlace =>
        /\ selectedPlace # NullPlace
        /\ placeIdOf(selectedPlace) = placeDetails.place_id

\* a loadGoogleMapsApi call returns
loadCalled == Len(loadCalls') = Len(loadCalls) + 1
attemptInFlight == \E a \in DOMAIN loadAttempts : loadAttempts[a] = "pending"

\* C30: after any failed attempt (getLoader throwing because the API key is
\* not configured, or loader.load() rejecting) the stored loadPromise is
\* cleared, so that the next loadGoogleMapsApi call starts a new attempt;
\* while an attempt is in flight and after success a call shares the
\* attempt or the instance, and loader.load() is not called again.
C30_RetryAfterFailure ==
    [][/\ \A a \in DOMAIN loadAttempts' :
              loadAttempts'[a] = "rejected" => loadPromise' # a
       /\ loadCalled =>
              IF googleInstance \/ attemptInFlight
              THEN /\ loadAttempts' = loadAttempts
                   /\ loaderLoads' = loaderLoads
              ELSE Len(loadAttempts') = Len(loadAttempts) + 1]_vars

=============================================================================
